---- MODULE Spec2Model ----
(***************************************************************************)
(* TalentGrid retrieval and ranking engine: the segmenter (CVChunker), the *)
(* lexical scorer and hybrid fusion (HybridSearch), the query parser and   *)
(* the Retriever, over a vector index.                                     *)
(*                                                                         *)
(* Text is modelled at character level: a Python str is a sequence of      *)
(* one-character strings, so lower(), strip(), split(), re.findall(\w+),   *)
(* str.count and the `in` substring test are computed, not assumed.        *)
(* Optional values (None or a value) are sets of at most one element.      *)
(* Floating-point scores are fixed-point integers; every scale is named.   *)
(***************************************************************************)
EXTENDS Integers, Sequences, FiniteSets, TLC

\* ------------------------------------------------------------------------
\* Python values
\* ------------------------------------------------------------------------

\* None, and a present value v.
None == {}
Some(v) == {v}
\* The value inside a present optional.
The(o) == CHOOSE v \in o : TRUE

SeqToSet(s) == {s[i] : i \in 1..Len(s)}
Max2(a, b) == IF a >= b THEN a ELSE b
Min2(a, b) == IF a <= b THEN a ELSE b

\* ------------------------------------------------------------------------
\* str methods
\* ------------------------------------------------------------------------

UpperChars ==
  <<"A","B","C","D","E","F","G","H","I","J","K","L","M",
    "N","O","P","Q","R","S","T","U","V","W","X","Y","Z">>
LowerChars ==
  <<"a","b","c","d","e","f","g","h","i","j","k","l","m",
    "n","o","p","q","r","s","t","u","v","w","x","y","z">>
DigitChars == <<"0","1","2","3","4","5","6","7","8","9">>

\* Upper-case letter -> its lower-case letter.
LowerOf == [c \in {UpperChars[i] : i \in 1..Len(UpperChars)} |->
              LowerChars[CHOOSE i \in 1..Len(UpperChars) : UpperChars[i] = c]]
LowerChar(c) == IF c \in DOMAIN LowerOf THEN LowerOf[c] ELSE c

\* str.lower()
Lower(s) == [i \in 1..Len(s) |-> LowerChar(s[i])] \o <<>>

\* str.isspace() of one character
IsSpace(c) == c \in {" ", "\t", "\n"}

\* the class \w of re: letters, digits and the underscore
WordChars ==
  {UpperChars[i] : i \in 1..Len(UpperChars)} \cup {LowerChars[i] : i \in 1..Len(LowerChars)}
  \cup {DigitChars[i] : i \in 1..Len(DigitChars)} \cup {"_"}
IsWordChar(c) == c \in WordChars

\* str.strip()
RECURSIVE StripLeft(_)
StripLeft(s) == IF s = <<>> \/ ~IsSpace(s[1]) THEN s ELSE StripLeft(Tail(s))

RECURSIVE StripRight(_)
StripRight(s) ==
  IF s = <<>> \/ ~IsSpace(s[Len(s)]) THEN s ELSE StripRight(SubSeq(s, 1, Len(s) - 1))

Strip(s) == StripRight(StripLeft(s))

\* The maximal runs of characters of s that satisfy keep, left to right.
RECURSIVE RunsFrom(_, _, _, _, _)
RunsFrom(s, isSep, i, cur, acc) ==
  IF i > Len(s) THEN (IF cur = <<>> THEN acc ELSE Append(acc, cur))
  ELSE IF isSep[s[i]]
       THEN RunsFrom(s, isSep, i + 1, <<>>, IF cur = <<>> THEN acc ELSE Append(acc, cur))
       ELSE RunsFrom(s, isSep, i + 1, Append(cur, s[i]), acc)

\* str.split() with no argument: the whitespace-separated words
Split(s) == RunsFrom(s, [c \in SeqToSet(s) |-> IsSpace(c)], 1, <<>>, <<>>)

\* re.findall(r"\w+", s)
FindAllWords(s) == RunsFrom(s, [c \in SeqToSet(s) |-> ~IsWordChar(c)], 1, <<>>, <<>>)

\* w occurs in t at position i
OccursAt(t, w, i) ==
  /\ i + Len(w) - 1 <= Len(t)
  /\ \A j \in 1..Len(w) : t[i + j - 1] = w[j]

\* `w in t` for two strings
Contains(t, w) ==
  \/ Len(w) = 0
  \/ \E i \in 1..(Len(t) - Len(w) + 1) : t[i] = w[1] /\ OccursAt(t, w, i)

\* str.count(w): the non-overlapping occurrences of w in t, scanning from the left
RECURSIVE CountFrom(_, _, _)
CountFrom(t, w, i) ==
  IF i + Len(w) - 1 > Len(t) THEN 0
  ELSE IF t[i] = w[1] /\ OccursAt(t, w, i) THEN 1 + CountFrom(t, w, i + Len(w))
       ELSE CountFrom(t, w, i + 1)
Count(t, w) == IF Len(w) = 0 THEN Len(t) + 1 ELSE CountFrom(t, w, 1)

\* t[:n]
Prefix(t, n) == SubSeq(t, 1, Min2(n, Len(t)))

\* sep.join(parts)
RECURSIVE Join(_, _)
Join(sep, parts) ==
  IF Len(parts) = 0 THEN <<>>
  ELSE IF Len(parts) = 1 THEN parts[1]
       ELSE parts[1] \o sep \o Join(sep, Tail(parts))

\* s.split(c)[0]: the part of s before the first c
SplitFirst(s, c) ==
  IF \E i \in 1..Len(s) : s[i] = c
  THEN SubSeq(s, 1, (CHOOSE i \in 1..Len(s) : s[i] = c /\ \A j \in 1..(i-1) : s[j] # c) - 1)
  ELSE s

\* [x for x in xs if keep(x)], keep given as a set
RECURSIVE FilterSeq(_, _)
FilterSeq(xs, keep) ==
  IF Len(xs) = 0 THEN <<>>
  ELSE (IF Head(xs) \in keep THEN <<Head(xs)>> ELSE <<>>) \o FilterSeq(Tail(xs), keep)

RECURSIVE SumSeq(_)
SumSeq(xs) == IF Len(xs) = 0 THEN 0 ELSE Head(xs) + SumSeq(Tail(xs))

RECURSIVE MaxSeq(_)
MaxSeq(xs) == IF Len(xs) = 1 THEN xs[1] ELSE Max2(Head(xs), MaxSeq(Tail(xs)))

\* ------------------------------------------------------------------------
\* HybridSearch: vocabulary tables
\* ------------------------------------------------------------------------

\* HybridSearch.STOP_WORDS: words ignored in keyword matching.
STOP_WORDS ==
  {
    <<"a">>, <<"a","n">>, <<"t","h","e">>, <<"a","n","d">>, <<"o","r">>, <<"b","u","t">>,
    <<"i","n">>, <<"o","n">>, <<"a","t">>, <<"t","o">>, <<"f","o","r">>, <<"o","f">>,
    <<"w","i","t","h">>, <<"b","y">>, <<"f","r","o","m">>, <<"a","s">>, <<"i","s">>,
    <<"w","a","s">>, <<"a","r","e">>, <<"w","e","r","e">>, <<"b","e","e","n">>, <<"b","e">>,
    <<"h","a","v","e">>, <<"h","a","s">>, <<"h","a","d">>, <<"d","o">>, <<"d","o","e","s">>,
    <<"d","i","d">>, <<"w","i","l","l">>, <<"w","o","u","l","d">>, <<"c","o","u","l","d">>,
    <<"s","h","o","u","l","d">>, <<"m","a","y">>, <<"m","i","g","h","t">>, <<"m","u","s","t">>,
    <<"s","h","a","l","l">>, <<"c","a","n">>, <<"n","e","e","d">>, <<"t","h","a","t">>,
    <<"t","h","i","s">>, <<"t","h","e","s","e">>, <<"t","h","o","s","e">>, <<"i">>,
    <<"y","o","u">>, <<"h","e">>, <<"s","h","e">>, <<"i","t">>, <<"w","e">>,
    <<"t","h","e","y">>, <<"w","h","a","t">>, <<"w","h","i","c","h">>, <<"w","h","o">>,
    <<"w","h","o","m">>, <<"w","h","e","r","e">>, <<"w","h","e","n">>, <<"w","h","y">>,
    <<"h","o","w">>, <<"a","l","l">>, <<"e","a","c","h">>, <<"e","v","e","r","y">>,
    <<"b","o","t","h">>, <<"f","e","w">>, <<"m","o","r","e">>, <<"m","o","s","t">>,
    <<"o","t","h","e","r">>, <<"s","o","m","e">>, <<"s","u","c","h">>, <<"n","o">>,
    <<"n","o","r">>, <<"n","o","t">>, <<"o","n","l","y">>, <<"o","w","n">>, <<"s","a","m","e">>,
    <<"s","o">>, <<"t","h","a","n">>, <<"t","o","o">>, <<"v","e","r","y">>, <<"j","u","s","t">>,
    <<"a","l","s","o">>, <<"n","o","w">>, <<"s","k","i","l","l","s">>,
    <<"e","x","p","e","r","i","e","n","c","e">>, <<"y","e","a","r","s">>, <<"w","o","r","k">>,
    <<"w","o","r","k","i","n","g">>, <<"j","o","b">>, <<"p","o","s","i","t","i","o","n">>,
    <<"r","o","l","e">>, <<"l","e","v","e","l">>, <<"l","o","o","k","i","n","g">>,
    <<"s","e","e","k","i","n","g">>, <<"r","e","q","u","i","r","e","d">>,
    <<"r","e","q","u","i","r","e","m","e","n","t","s">>, <<"p","r","e","f","e","r","r","e","d">>
  }

\* HybridSearch.TECH_SKILLS: the domain vocabulary.
TECH_SKILLS ==
  {
    <<"f","l","u","t","t","e","r">>, <<"d","a","r","t">>, <<"r","e","a","c","t">>,
    <<"a","n","g","u","l","a","r">>, <<"v","u","e">>,
    <<"j","a","v","a","s","c","r","i","p","t">>, <<"t","y","p","e","s","c","r","i","p","t">>,
    <<"p","y","t","h","o","n">>, <<"j","a","v","a">>, <<"k","o","t","l","i","n">>,
    <<"s","w","i","f","t">>, <<"g","o">>, <<"r","u","s","t">>, <<"r","u","b","y">>,
    <<"p","h","p">>, <<"n","o","d","e">>, <<"n","o","d","e","j","s">>,
    <<"e","x","p","r","e","s","s">>, <<"d","j","a","n","g","o">>, <<"f","l","a","s","k">>,
    <<"s","p","r","i","n","g">>, <<"r","a","i","l","s">>, <<"s","q","l">>,
    <<"m","y","s","q","l">>, <<"p","o","s","t","g","r","e","s","q","l">>,
    <<"m","o","n","g","o","d","b">>, <<"r","e","d","i","s">>,
    <<"e","l","a","s","t","i","c","s","e","a","r","c","h">>, <<"a","w","s">>,
    <<"a","z","u","r","e">>, <<"g","c","p">>, <<"d","o","c","k","e","r">>,
    <<"k","u","b","e","r","n","e","t","e","s">>, <<"t","e","r","r","a","f","o","r","m">>,
    <<"r","e","a","c","t"," ","n","a","t","i","v","e">>, <<"i","o","s">>,
    <<"a","n","d","r","o","i","d">>, <<"m","o","b","i","l","e">>,
    <<"f","r","o","n","t","e","n","d">>, <<"b","a","c","k","e","n","d">>,
    <<"f","u","l","l","s","t","a","c","k">>, <<"d","e","v","o","p","s">>,
    <<"m","l","o","p","s">>,
    <<"m","a","c","h","i","n","e"," ","l","e","a","r","n","i","n","g">>, <<"m","l">>,
    <<"a","i">>, <<"t","e","n","s","o","r","f","l","o","w">>, <<"p","y","t","o","r","c","h">>,
    <<"p","a","n","d","a","s">>, <<"n","u","m","p","y">>, <<"s","c","i","k","i","t">>,
    <<"h","t","m","l">>, <<"c","s","s">>, <<"s","a","s","s">>,
    <<"t","a","i","l","w","i","n","d">>, <<"b","o","o","t","s","t","r","a","p">>,
    <<"g","i","t">>, <<"a","g","i","l","e">>, <<"s","c","r","u","m">>, <<"j","i","r","a">>,
    <<"f","i","g","m","a">>, <<"s","k","e","t","c","h">>
  }

\* HybridSearch.SYNONYMS: term -> list of synonyms.
SYNONYMS ==
    (<<"r","e","a","c","t">> :> <<<<"r","e","a","c","t","j","s">>, <<"r","e","a","c","t",".","j","s">>>>) @@
    (<<"r","e","a","c","t","j","s">> :> <<<<"r","e","a","c","t">>, <<"r","e","a","c","t",".","j","s">>>>) @@
    (<<"v","u","e">> :> <<<<"v","u","e","j","s">>, <<"v","u","e",".","j","s">>>>) @@
    (<<"v","u","e","j","s">> :> <<<<"v","u","e">>, <<"v","u","e",".","j","s">>>>) @@
    (<<"a","n","g","u","l","a","r">> :> <<<<"a","n","g","u","l","a","r","j","s">>, <<"a","n","g","u","l","a","r",".","j","s">>>>) @@
    (<<"n","o","d","e">> :> <<<<"n","o","d","e","j","s">>, <<"n","o","d","e",".","j","s">>>>) @@
    (<<"n","o","d","e","j","s">> :> <<<<"n","o","d","e">>, <<"n","o","d","e",".","j","s">>>>) @@
    (<<"j","a","v","a","s","c","r","i","p","t">> :> <<<<"j","s">>, <<"e","c","m","a","s","c","r","i","p","t">>>>) @@
    (<<"j","s">> :> <<<<"j","a","v","a","s","c","r","i","p","t">>, <<"e","c","m","a","s","c","r","i","p","t">>>>) @@
    (<<"t","y","p","e","s","c","r","i","p","t">> :> <<<<"t","s">>>>) @@
    (<<"t","s">> :> <<<<"t","y","p","e","s","c","r","i","p","t">>>>) @@
    (<<"p","y","t","h","o","n">> :> <<<<"p","y">>>>) @@
    (<<"p","y">> :> <<<<"p","y","t","h","o","n">>>>) @@
    (<<"g","o","l","a","n","g">> :> <<<<"g","o">>>>) @@
    (<<"g","o">> :> <<<<"g","o","l","a","n","g">>>>) @@
    (<<"k","u","b","e","r","n","e","t","e","s">> :> <<<<"k","8","s">>>>) @@
    (<<"k","8","s">> :> <<<<"k","u","b","e","r","n","e","t","e","s">>>>) @@
    (<<"p","o","s","t","g","r","e","s","q","l">> :> <<<<"p","o","s","t","g","r","e","s">>, <<"p","s","q","l">>>>) @@
    (<<"p","o","s","t","g","r","e","s">> :> <<<<"p","o","s","t","g","r","e","s","q","l">>, <<"p","s","q","l">>>>) @@
    (<<"m","o","n","g","o","d","b">> :> <<<<"m","o","n","g","o">>>>) @@
    (<<"m","o","n","g","o">> :> <<<<"m","o","n","g","o","d","b">>>>) @@
    (<<"e","l","a","s","t","i","c","s","e","a","r","c","h">> :> <<<<"e","l","a","s","t","i","c">>, <<"e","s">>>>) @@
    (<<"m","a","c","h","i","n","e"," ","l","e","a","r","n","i","n","g">> :> <<<<"m","l">>, <<"m","a","c","h","i","n","e","l","e","a","r","n","i","n","g">>>>) @@
    (<<"m","l">> :> <<<<"m","a","c","h","i","n","e"," ","l","e","a","r","n","i","n","g">>, <<"m","a","c","h","i","n","e","l","e","a","r","n","i","n","g">>>>) @@
    (<<"a","r","t","i","f","i","c","i","a","l"," ","i","n","t","e","l","l","i","g","e","n","c","e">> :> <<<<"a","i">>>>) @@
    (<<"a","i">> :> <<<<"a","r","t","i","f","i","c","i","a","l"," ","i","n","t","e","l","l","i","g","e","n","c","e">>>>) @@
    (<<"f","r","o","n","t","e","n","d">> :> <<<<"f","r","o","n","t","-","e","n","d">>, <<"f","r","o","n","t"," ","e","n","d">>>>) @@
    (<<"b","a","c","k","e","n","d">> :> <<<<"b","a","c","k","-","e","n","d">>, <<"b","a","c","k"," ","e","n","d">>>>) @@
    (<<"f","u","l","l","s","t","a","c","k">> :> <<<<"f","u","l","l","-","s","t","a","c","k">>, <<"f","u","l","l"," ","s","t","a","c","k">>>>) @@
    (<<"d","e","v","o","p","s">> :> <<<<"d","e","v","-","o","p","s">>, <<"d","e","v"," ","o","p","s">>>>) @@
    (<<"r","e","a","c","t"," ","n","a","t","i","v","e">> :> <<<<"r","e","a","c","t","n","a","t","i","v","e">>, <<"r","n">>>>) @@
    (<<"n","e","x","t","j","s">> :> <<<<"n","e","x","t",".","j","s">>, <<"n","e","x","t">>>>) @@
    (<<"n","u","x","t","j","s">> :> <<<<"n","u","x","t",".","j","s">>, <<"n","u","x","t">>>>)

\* HybridSearch.TITLE_PATTERNS: role keyword -> list of variants.
TITLE_PATTERNS ==
    (<<"d","e","v","e","l","o","p","e","r">> :> <<<<"e","n","g","i","n","e","e","r">>, <<"d","e","v">>, <<"p","r","o","g","r","a","m","m","e","r">>, <<"c","o","d","e","r">>>>) @@
    (<<"e","n","g","i","n","e","e","r">> :> <<<<"d","e","v","e","l","o","p","e","r">>, <<"d","e","v">>>>) @@
    (<<"s","e","n","i","o","r">> :> <<<<"s","r">>, <<"s","r",".">>, <<"l","e","a","d">>, <<"p","r","i","n","c","i","p","a","l">>>>) @@
    (<<"j","u","n","i","o","r">> :> <<<<"j","r">>, <<"j","r",".">>, <<"e","n","t","r","y">>>>) @@
    (<<"f","r","o","n","t","e","n","d">> :> <<<<"f","r","o","n","t","-","e","n","d">>, <<"f","r","o","n","t"," ","e","n","d">>, <<"u","i">>>>) @@
    (<<"b","a","c","k","e","n","d">> :> <<<<"b","a","c","k","-","e","n","d">>, <<"b","a","c","k"," ","e","n","d">>, <<"s","e","r","v","e","r">>>>) @@
    (<<"f","u","l","l","s","t","a","c","k">> :> <<<<"f","u","l","l","-","s","t","a","c","k">>, <<"f","u","l","l"," ","s","t","a","c","k">>>>) @@
    (<<"d","a","t","a"," ","s","c","i","e","n","t","i","s","t">> :> <<<<"d","a","t","a"," ","s","c","i","e","n","c","e">>, <<"m","l"," ","e","n","g","i","n","e","e","r">>>>) @@
    (<<"d","e","v","o","p","s">> :> <<<<"s","r","e">>, <<"s","i","t","e"," ","r","e","l","i","a","b","i","l","i","t","y">>, <<"p","l","a","t","f","o","r","m"," ","e","n","g","i","n","e","e","r">>>>) @@
    (<<"m","o","b","i","l","e">> :> <<<<"i","o","s">>, <<"a","n","d","r","o","i","d">>, <<"a","p","p"," ","d","e","v","e","l","o","p","e","r">>>>)

\* title_keywords of _get_title_boost.
title_keywords ==
  <<
    <<"d","e","v","e","l","o","p","e","r">>, <<"e","n","g","i","n","e","e","r">>,
    <<"d","e","s","i","g","n","e","r">>, <<"m","a","n","a","g","e","r">>, <<"l","e","a","d">>,
    <<"s","e","n","i","o","r">>, <<"j","u","n","i","o","r">>,
    <<"a","r","c","h","i","t","e","c","t">>, <<"a","n","a","l","y","s","t">>,
    <<"s","c","i","e","n","t","i","s","t">>
  >>

\* ------------------------------------------------------------------------
\* HybridSearch: query classification and lexical scoring
\* ------------------------------------------------------------------------

\* Fixed-point scales.  A raw lexical score is counted in 1/RawScale; a
\* title boost in 1/BoostScale; a normalized lexical score and a vector
\* similarity in 1/ScoreScale; a fused score in 1/FusedScale; an aggregated
\* document score in 1/AggScale.
LnScale == 100
SynScale == 10
BoostScale == 20
RawScale == LnScale * SynScale * BoostScale
ScoreScale == 1000
WeightScale == 10
FusedScale == ScoreScale * WeightScale
AggScale == FusedScale * WeightScale

\* math.log(n) in 1/LnScale, for the counts the model's texts can reach.
LnTable == <<0, 69, 110, 139, 161, 179, 195, 208, 220, 230, 240, 248>>
Ln(n) == LnTable[n]

\* The words of the query that _is_skill_query classifies:
\* [w for w in query.lower().split() if w not in STOP_WORDS]
SkillWords(query) ==
  LET ws == Split(Lower(query))
  IN FilterSeq(ws, SeqToSet(ws) \ STOP_WORDS)

IsSkillQueryShortOnly(query) == Len(SkillWords(query)) <= 2

\* HybridSearch._is_skill_query
IsSkillQuery(query) ==
  LET words == SkillWords(query)
  IN \/ Len(words) <= 2
     \/ \E i \in 1..Len(words) : words[i] \in TECH_SKILLS

\* The keywords bm25_score extracts from the query (lines 180-184).
Keywords(query) ==
  LET all_words == FindAllWords(Lower(query))
      kept == FilterSeq(all_words, {w \in SeqToSet(all_words) : w \notin STOP_WORDS /\ Len(w) >= 2})
  IN IF Len(kept) > 0 THEN kept
     ELSE FilterSeq(all_words, {w \in SeqToSet(all_words) : Len(w) >= 3})

\* HybridSearch._expand_with_synonyms: the keywords and all their synonyms.
ExpandWithSynonyms(keywords) ==
  SeqToSet(keywords) \cup
  UNION {SeqToSet(SYNONYMS[Lower(w)]) : w \in {k \in SeqToSet(keywords) : Lower(k) \in DOMAIN SYNONYMS}}

RECURSIVE SumOver(_, _)
SumOver(S, f) ==
  IF S = {} THEN 0
  ELSE LET x == CHOOSE y \in S : TRUE IN f[x] + SumOver(S \ {x}, f)

\* What bm25_score and _get_title_boost derive from the query alone: the
\* lowered query, its keywords and their synonyms, its whitespace words, and
\* the title keywords that occur in it (lines 136, 145, 159, 180-187).
QueryTerms(query) ==
  LET query_lower == Lower(query)
      keywords == Keywords(query)
  IN [ query_lower |-> query_lower,
       keywords |-> keywords,
       expanded |-> ExpandWithSynonyms(keywords),
       query_words |-> Split(query_lower),
       title_hits |-> FilterSeq(title_keywords,
                        {k \in SeqToSet(title_keywords) : Contains(query_lower, k)}) ]

\* HybridSearch._get_title_boost for the lowered text, in 1/BoostScale
\* (1.0 = 20, +0.15 = 3, +0.1 = 2, +0.2 = 4, cap 1.5 = 30).
TitleBoostOf(terms, text_lower) ==
  LET kwBoost(k) ==
        (IF Contains(text_lower, k) THEN 3 ELSE 0)
        + (IF k \in DOMAIN TITLE_PATTERNS
              /\ \E i \in 1..Len(TITLE_PATTERNS[k]) : Contains(text_lower, TITLE_PATTERNS[k][i])
           THEN 2 ELSE 0)
      query_words == terms.query_words
      bigram(i) ==
        IF /\ query_words[i] \in TECH_SKILLS
           /\ i + 1 <= Len(query_words)
           /\ query_words[i + 1] \in SeqToSet(title_keywords)
           /\ Contains(Prefix(text_lower, 200), query_words[i])
        THEN 4 ELSE 0
      boost == BoostScale
               + SumSeq([i \in 1..Len(terms.title_hits) |-> kwBoost(terms.title_hits[i])])
               + SumSeq([i \in 1..Len(query_words) |-> bigram(i)])
  IN Min2(boost, 30)

TitleBoost(query, text) == TitleBoostOf(QueryTerms(query), Lower(text))

\* The score bm25_score gives one text before normalization (lines 193-220),
\* in 1/RawScale.
RawScoreOf(terms, text) ==
  LET text_lower == Lower(text)
      keywords == SeqToSet(terms.keywords)
      base(word) ==
        LET count == Count(text_lower, word)
        IN IF count > 0
           THEN (LnScale + Ln(1 + count))
                * (IF word \in TECH_SKILLS THEN 3 ELSE 1)
                * (IF word \notin keywords THEN 8 ELSE SynScale)
           ELSE 0
      matches == SumOver(terms.expanded, [w \in terms.expanded |-> base(w)])
      phrase == IF Contains(text_lower, terms.query_lower)
                THEN Len(terms.keywords) * 2 * LnScale * SynScale ELSE 0
  IN (matches + phrase) * TitleBoostOf(terms, text_lower)

RawScore(query, text) == RawScoreOf(QueryTerms(query), text)

\* max_score = 0.001 (line 190), in 1/RawScale.
MinMaxScore == 20

\* The raw scores of a batch: documents is a function id -> text.
RawScores(query, documents) ==
  LET terms == QueryTerms(query)
  IN [id \in DOMAIN documents |-> RawScoreOf(terms, documents[id])] @@ <<>>

BatchTotal(raw) == Max2(MinMaxScore, SumOver(DOMAIN raw, raw))

\* max_score after the loop (lines 190, 223).
BatchMax(raw) ==
  IF DOMAIN raw = {} THEN MinMaxScore
  ELSE Max2(MinMaxScore, CHOOSE m \in {raw[id] : id \in DOMAIN raw} :
                            \A id \in DOMAIN raw : raw[id] <= m)

\* Normalization of one raw score (line 227), in 1/ScoreScale.
NormalizeUnclamped(s, max_score) == (s * ScoreScale) \div MinMaxScore
Normalize(s, max_score) == (s * ScoreScale) \div max_score

\* HybridSearch.bm25_score: id -> normalized score.
Bm25Score(query, documents) ==
  LET raw == RawScores(query, documents)
      max_score == BatchMax(raw)
  IN [id \in DOMAIN documents |-> Normalize(raw[id], max_score)]

\* ------------------------------------------------------------------------
\* CVChunker: one structured record -> its segments
\* ------------------------------------------------------------------------

\* A structured record (cv_json) is a function from the keys it holds to
\* optional values: None ({}) is JSON null, a missing key is not in DOMAIN.

\* dict.get(key, default); default is what Python returns for a missing key.
Get(d, key, default) == IF key \in DOMAIN d THEN d[key] ELSE default

\* d with d[key] = value
SetItem(d, key, value) == [k \in {key} |-> value] @@ d

\* Truthiness of an optional string or list: None, "" and [] are falsy.
Truthy(o) == o # None /\ Len(The(o)) > 0

\* How an f-string renders an optional string: None prints as "None".
NoneStr == <<"N","o","n","e">>
Fmt(o) == IF o = None THEN NoneStr ELSE The(o)

\* str(i) for a natural number
RECURSIVE IntStr(_)
IntStr(i) == IF i < 10 THEN <<DigitChars[i + 1]>> ELSE IntStr(i \div 10) \o <<DigitChars[(i % 10) + 1]>>

\* CVChunker._build_chunk
BuildChunk(cv_id, chunk_type, text, cv_json, language_names) ==
  [ id |-> cv_id \o <<"_">> \o chunk_type,
    text |-> text,
    metadata |-> [ cv_id |-> cv_id,
                   chunk_type |-> chunk_type,
                   name |-> Get(cv_json, "name", None),
                   location |-> Get(cv_json, "location", None),
                   experience_years |-> Get(cv_json, "experience_years", None),
                   title |-> Get(cv_json, "title", None),
                   languages |-> IF Len(language_names) > 0
                                 THEN Some(Join(<<","," ">>, language_names))
                                 ELSE None ] ]

\* `for x in v` and enumerate(v) raise TypeError when v is None.
Iterable(v) == v # None

\* The lists chunk iterates over without a truthiness test (lines 21, 73,
\* 96, 160): chunk raises when one of them is present and null.
ChunkRaises(cv_json) ==
  \/ ~Iterable(Get(cv_json, "languages", Some(<<>>)))
  \/ ~Iterable(Get(cv_json, "experience", Some(<<>>)))
  \/ ~Iterable(Get(cv_json, "education", Some(<<>>)))
  \/ ~Iterable(Get(cv_json, "projects_or_work", Some(<<>>)))

\* [name for lang in languages if lang.get("name")] (lines 19-24)
LanguageNames(languages) ==
  LET names == [i \in 1..Len(languages) |-> languages[i].name]
      kept == FilterSeq(names, {n \in SeqToSet(names) : Truthy(n)})
  IN [i \in 1..Len(kept) |-> The(kept[i])]

\* profile_text (lines 28-37)
ProfileText(cv_json) ==
  LET title == Get(cv_json, "title", None)
      summary == Get(cv_json, "summary", None)
  IN (IF Truthy(title) THEN <<"J","o","b"," ","T","i","t","l","e",":"," ">> \o The(title) \o <<"."," ">> ELSE <<>>)
     \o (IF Truthy(summary) THEN <<"S","u","m","m","a","r","y",":"," ">> \o The(summary) ELSE <<>>)

\* The text of one experience entry (lines 75-80)
ExperienceText(exp) ==
  <<"R","o","l","e",":"," ">> \o Fmt(exp.role)
  \o <<"."," ","C","o","m","p","a","n","y",":"," ">> \o Fmt(exp.organization)
  \o <<"."," ","P","e","r","i","o","d",":"," ">> \o Fmt(exp.from) \o <<" ","-"," ">> \o Fmt(exp.to)
  \o <<"."," ","D","e","s","c","r","i","p","t","i","o","n",":"," ">> \o Fmt(exp.description)

\* The text of one education entry (lines 98-103)
EducationText(edu) ==
  <<"D","e","g","r","e","e",":"," ">> \o Fmt(edu.degree)
  \o <<"."," ","F","i","e","l","d",":"," ">> \o Fmt(edu.field)
  \o <<"."," ","I","n","s","t","i","t","u","t","i","o","n",":"," ">> \o Fmt(edu.institution)
  \o <<"."," ","P","e","r","i","o","d",":"," ">> \o Fmt(edu.from) \o <<" ","-"," ">> \o Fmt(edu.to)

\* The text of the languages segment (lines 119-126)
LanguagesText(languages) ==
  <<"L","a","n","g","u","a","g","e","s",":"," ">> \o
  Join(<<","," ">>,
       [i \in 1..Len(languages) |->
          Fmt(languages[i].name) \o <<" ","(">> \o Fmt(languages[i].level) \o <<")">>])

KindProfile == <<"p","r","o","f","i","l","e">>
KindSkills == <<"s","k","i","l","l","s">>
KindLanguages == <<"l","a","n","g","u","a","g","e","s">>
KindCertifications == <<"c","e","r","t","i","f","i","c","a","t","i","o","n","s">>
KindExperience(i) == <<"e","x","p","e","r","i","e","n","c","e","_">> \o IntStr(i)
KindEducation(i) == <<"e","d","u","c","a","t","i","o","n","_">> \o IntStr(i)
KindProject(i) == <<"p","r","o","j","e","c","t","_">> \o IntStr(i)

\* CVChunker.chunk for a record it does not raise on: the segments in the
\* order the code appends them; cv_id is the uuid4 drawn at line 14.
Chunks(cv_json, cv_id) ==
  LET languages == The(Get(cv_json, "languages", Some(<<>>)))
      language_names == LanguageNames(languages)
      B(kind, text) == BuildChunk(cv_id, kind, text, cv_json, language_names)
      profile_text == ProfileText(cv_json)
      skills == Get(cv_json, "skills", Some(<<>>))
      experiences == The(Get(cv_json, "experience", Some(<<>>)))
      educations == The(Get(cv_json, "education", Some(<<>>)))
      certs == Get(cv_json, "certifications", Some(<<>>))
      projects == The(Get(cv_json, "projects_or_work", Some(<<>>)))
  IN (IF Len(Strip(profile_text)) > 0 THEN <<B(KindProfile, profile_text)>> ELSE <<>>)
     \o (IF Truthy(skills)
         THEN <<B(KindSkills, <<"S","k","i","l","l","s",":"," ">> \o Join(<<","," ">>, The(skills)))>>
         ELSE <<>>)
     \o [i \in 1..Len(experiences) |-> B(KindExperience(i - 1), ExperienceText(experiences[i]))]
     \o [i \in 1..Len(educations) |-> B(KindEducation(i - 1), EducationText(educations[i]))]
     \o (IF Len(languages) > 0 THEN <<B(KindLanguages, LanguagesText(languages))>> ELSE <<>>)
     \o (IF Truthy(certs)
         THEN <<B(KindCertifications, <<"C","e","r","t","i","f","i","c","a","t","i","o","n","s",":"," ">> \o Join(<<","," ">>, The(certs)))>>
         ELSE <<>>)
     \o [i \in 1..Len(projects) |-> B(KindProject(i - 1), <<"P","r","o","j","e","c","t",":"," ">> \o projects[i])]

\* CVChunker.chunk: what the call returns, or that it raised.
Chunk(cv_json, cv_id) ==
  IF ChunkRaises(cv_json)
  THEN [raised |-> TRUE, chunks |-> <<>>]
  ELSE [raised |-> FALSE, chunks |-> Chunks(cv_json, cv_id)]

\* ------------------------------------------------------------------------
\* Embedder and VectorStore (the external embedding model and index)
\* ------------------------------------------------------------------------

\* Embedder.embed: a deterministic text -> vector function.  The model's
\* vectors have two small integer coordinates computed from the text.
Embed(text) == <<Len(text) % 5, Len(Split(text)) % 3>>

\* The index's distance between two vectors (squared L2): never negative.
Distance(u, v) == (u[1] - v[1]) * (u[1] - v[1]) + (u[2] - v[2]) * (u[2] - v[2])

\* A stored metadata value: a string, an integer, or None.
PyStr(s) == [type |-> "str", value |-> s]
PyInt(n) == [type |-> "int", value |-> n]
PyNone == [type |-> "NoneType"]

\* One condition of a where clause against a stored metadata record: a
\* range never matches a value that is not a number.
CondHolds(metadata, cond) ==
  /\ metadata.experience_years.type = "int"
  /\ IF cond.op = "$gte" THEN metadata.experience_years.value >= cond.value
     ELSE metadata.experience_years.value <= cond.value

\* where: None, or Some of the conditions that must all hold.
WhereHolds(metadata, where) ==
  where = None \/ \A i \in 1..Len(The(where).conds) : CondHolds(metadata, The(where).conds[i])

\* xs sorted by ascending key, equal keys keeping their order.
RECURSIVE InsertAsc(_, _, _)
InsertAsc(sorted, x, key) ==
  IF Len(sorted) = 0 THEN <<x>>
  ELSE IF key[Head(sorted)] <= key[x] THEN <<Head(sorted)>> \o InsertAsc(Tail(sorted), x, key)
       ELSE <<x>> \o sorted
RECURSIVE SortAsc(_, _)
SortAsc(xs, key) ==
  IF Len(xs) = 0 THEN <<>>
  ELSE InsertAsc(SortAsc(SubSeq(xs, 1, Len(xs) - 1), key), xs[Len(xs)], key)

\* sorted(xs, key=..., reverse=True): descending key, equal keys keeping
\* their order (Python's sort is stable, also with reverse=True).
RECURSIVE InsertDesc(_, _, _)
InsertDesc(sorted, x, key) ==
  IF Len(sorted) = 0 THEN <<x>>
  ELSE IF key[Head(sorted)] >= key[x] THEN <<Head(sorted)>> \o InsertDesc(Tail(sorted), x, key)
       ELSE <<x>> \o sorted
RECURSIVE SortDesc(_, _)
SortDesc(xs, key) ==
  IF Len(xs) = 0 THEN <<>>
  ELSE InsertDesc(SortDesc(SubSeq(xs, 1, Len(xs) - 1), key), xs[Len(xs)], key)

\* [x for x in xs if x in keep], without duplicates removed
SelectIdx(n, keep) == FilterSeq([i \in 1..n |-> i], keep)

\* VectorStore.search -> collection.query: the n_results stored segments
\* nearest to the query vector among those the where clause admits, nearest
\* first, as [id, document, distance].  coll is the sequence of stored
\* segments in insertion order.
StoreSearch(coll, query_embedding, n_results, where) ==
  LET admitted == SelectIdx(Len(coll), {i \in 1..Len(coll) : WhereHolds(coll[i].metadata, where)})
      dist == [i \in 1..Len(coll) |-> Distance(query_embedding, coll[i].embedding)]
      order == SortAsc(admitted, dist)
      top == SubSeq(order, 1, Min2(n_results, Len(order)))
  IN [j \in 1..Len(top) |->
        [id |-> coll[top[j]].id, document |-> coll[top[j]].document, distance |-> dist[top[j]]]]

\* VectorStore.add of one segment
StoreAdd(coll, id, document, embedding, metadata) ==
  Append(coll, [id |-> id, document |-> document, embedding |-> embedding, metadata |-> metadata])

\* The metadata dict of a chunk as the values it holds: cv_id and
\* chunk_type are strings, experience_years is an integer or None, the
\* others are strings or None.
MetadataValues(m) ==
  [ cv_id |-> PyStr(m.cv_id),
    chunk_type |-> PyStr(m.chunk_type),
    name |-> IF m.name = None THEN PyNone ELSE PyStr(The(m.name)),
    location |-> IF m.location = None THEN PyNone ELSE PyStr(The(m.location)),
    title |-> IF m.title = None THEN PyNone ELSE PyStr(The(m.title)),
    languages |-> IF m.languages = None THEN PyNone ELSE PyStr(The(m.languages)),
    experience_years |-> IF m.experience_years = None THEN PyNone
                         ELSE PyInt(The(m.experience_years)) ]

\* clean_metadata / the comprehension of _ingest_with_candidate_id:
\* {k: ("" if v is None else v) for k, v in meta.items()}
CleanValuesKeepNone(values) == values
CleanValues(values) ==
  [k \in DOMAIN values |-> IF values[k] = PyNone THEN PyStr(<<>>) ELSE values[k]]
CleanMetadata(m) == CleanValues(MetadataValues(m))

\* IngestionPipeline.ingest_one for a record chunk does not raise on and an
\* index that accepts every add: each segment embedded and added in order.
RECURSIVE AddChunks(_, _)
AddChunks(coll, chunks) ==
  IF Len(chunks) = 0 THEN coll
  ELSE AddChunks(StoreAdd(coll, Head(chunks).id, Head(chunks).text,
                          Embed(Head(chunks).text), CleanMetadata(Head(chunks).metadata)),
                 Tail(chunks))
IngestOne(coll, cv_json, cv_id) == AddChunks(coll, Chunk(cv_json, cv_id).chunks)

\* AIService._ingest_with_candidate_id, lines 142-156: candidate_id is put
\* into the metadata of each chunk before it is cleaned and added.
RECURSIVE AddChunksWithCandidateId(_, _, _)
AddChunksWithCandidateId(coll, chunks, candidate_id) ==
  IF Len(chunks) = 0 THEN coll
  ELSE AddChunksWithCandidateId(
         StoreAdd(coll, Head(chunks).id, Head(chunks).text, Embed(Head(chunks).text),
                  CleanValues(SetItem(MetadataValues(Head(chunks).metadata),
                                      "candidate_id", PyInt(candidate_id)))),
         Tail(chunks), candidate_id)

\* AIService.ingest_cv: the record is segmented under a fresh cv_id and its
\* segments are added with or without a candidate_id; an exception (chunk
\* raising) is caught and False returned.
IngestCv(coll, cv_json, candidate_id, cv_id) ==
  LET chunked == Chunk(cv_json, cv_id)
  IN IF chunked.raised THEN [ok |-> FALSE, chunks |-> <<>>, collection |-> coll]
     ELSE [ ok |-> TRUE,
            chunks |-> chunked.chunks,
            collection |-> IF candidate_id = None THEN AddChunks(coll, chunked.chunks)
                           ELSE AddChunksWithCandidateId(coll, chunked.chunks, The(candidate_id)) ]

\* ------------------------------------------------------------------------
\* QueryParser
\* ------------------------------------------------------------------------

\* QueryParser._build_filters: ui_filters is a function from the keys the
\* dict holds to optional values.
BuildFilters(ui_filters) ==
  IF DOMAIN ui_filters = {} THEN None
  ELSE LET min_exp == Get(ui_filters, "min_experience", None)
           max_exp == Get(ui_filters, "max_experience", None)
           conditions ==
             (IF min_exp # None THEN <<[op |-> "$gte", value |-> The(min_exp)]>> ELSE <<>>)
             \o (IF max_exp # None THEN <<[op |-> "$lte", value |-> The(max_exp)]>> ELSE <<>>)
       IN IF Len(conditions) = 0 THEN None
          ELSE Some([and |-> Len(conditions) > 1, conds |-> conditions])

\* QueryParser.parse
Parse(query, ui_filters) == [query |-> Strip(query), filters |-> BuildFilters(ui_filters)]

\* ------------------------------------------------------------------------
\* HybridSearch.search and Retriever.retrieve, as functions of what they read
\* ------------------------------------------------------------------------

\* has_sql_filters (retriever.py lines 55-57)
HasSqlFilters(ui_filters) ==
  /\ DOMAIN ui_filters # {}
  /\ \/ Truthy(Get(ui_filters, "languages", None))
     \/ Truthy(Get(ui_filters, "location", None))

\* fetch_k (line 58) and fallback_k (line 76)
FetchK(top_k, has_sql_filters) ==
  IF has_sql_filters THEN Max2(top_k * 3, 60) ELSE Max2(top_k, 20)
FallbackKWide(top_k) == Max2(top_k * 3, 60)
FallbackK(top_k) == Max2(top_k, 20)

\* Distance to similarity (hybrid_search.py line 257), in 1/ScoreScale.
VectorScore(distance) == ScoreScale \div (1 + distance)

\* dict.get(id, 0) on a score map
ScoreOf(scores, id) == IF id \in DOMAIN scores THEN scores[id] ELSE 0

\* The weights of lines 267-275 as <<semantic, keyword>>, in 1/WeightScale.
WeightsSwapped(is_skill) == IF is_skill THEN <<8, 2>> ELSE <<4, 6>>
Weights(is_skill) == IF is_skill THEN <<2, 8>> ELSE <<6, 4>>

\* The weighted combination of line 286, in 1/FusedScale.
FusedScore(weights, semantic, keyword) == weights[1] * semantic + weights[2] * keyword

\* Lines 279-293: the fused score of every retrieved id, then the ids
\* ranked by descending fused score; ids is the retrieval order (the
\* insertion order of docs).
Ranked(ids, is_skill, vector_scores, bm25_scores) ==
  LET final == [i \in 1..Len(ids) |->
                  [id |-> ids[i],
                   score |-> FusedScore(Weights(is_skill),
                                        ScoreOf(vector_scores, ids[i]),
                                        ScoreOf(bm25_scores, ids[i]))]]
      key == [x \in SeqToSet(final) |-> x.score]
  IN SortDesc(final, key)

\* xs without repeats, first occurrences kept in order
RECURSIVE Dedupe(_)
Dedupe(xs) ==
  IF Len(xs) = 0 THEN <<>>
  ELSE LET front == Dedupe(SubSeq(xs, 1, Len(xs) - 1))
       IN IF xs[Len(xs)] \in SeqToSet(front) THEN front ELSE Append(front, xs[Len(xs)])

\* cv_id = doc_id.split("_")[0] (retriever.py line 89)
CvIdOf(doc_id) == SplitFirst(doc_id, "_")

AggregateScoreMaxOnly(chunk_scores) ==
  IF Len(chunk_scores) = 0 THEN 0 ELSE 10 * MaxSeq(chunk_scores)

\* The score of one document from its chunk scores (lines 102-112), in
\* 1/AggScale: 0.7 * best + 0.3 * average.
AggregateScore(chunk_scores) ==
  IF Len(chunk_scores) = 0 THEN 0
  ELSE 7 * MaxSeq(chunk_scores) + 3 * (SumSeq(chunk_scores) \div Len(chunk_scores))

\* Lines 86-112: the results dict, one entry per document in order of first
\* appearance in ranked, with the texts and fused scores of its segments.
GroupByCv(ranked, docs) ==
  LET cv_ids == Dedupe([i \in 1..Len(ranked) |-> CvIdOf(ranked[i].id)])
      mine(cv) == SelectIdx(Len(ranked), {i \in 1..Len(ranked) : CvIdOf(ranked[i].id) = cv})
      scores(cv) == [j \in 1..Len(mine(cv)) |-> ranked[mine(cv)[j]].score]
      chunks(cv) == [j \in 1..Len(mine(cv)) |-> docs[ranked[mine(cv)[j]].id]]
  IN [c \in 1..Len(cv_ids) |->
        [cv_id |-> cv_ids[c],
         chunks |-> chunks(cv_ids[c]),
         chunk_scores |-> scores(cv_ids[c]),
         score |-> AggregateScore(scores(cv_ids[c]))]]

CandidatesPadded(results) ==
  [c \in 1..Len(results) |->
     [id |-> results[c].cv_id,
      text |-> Join(<<" ">>, SubSeq(results[c].chunks, 1, Min2(3, Len(results[c].chunks)))),
      retrieval_score |-> results[c].score]]
  \o << [id |-> <<"0">>, text |-> <<>>, retrieval_score |-> 0] >>

\* Lines 115-126: the candidate list built from the results dict.
Candidates(results) ==
  [c \in 1..Len(results) |->
     [id |-> results[c].cv_id,
      text |-> Join(<<" ">>, SubSeq(results[c].chunks, 1, Min2(3, Len(results[c].chunks)))),
      retrieval_score |-> results[c].score]]


\* ------------------------------------------------------------------------
\* CrossEncoder (the re-ranker wrapper)
\* ------------------------------------------------------------------------

\* A candidate is a dict: a function from the keys it holds (id, text,
\* retrieval_score, score, candidate_id) to their values.  Scores returned
\* by the re-ranker are in 1/AggScale like the retrieval scores.

\* sorted(candidates, key=lambda x: x.get(key, 0), reverse=True): by
\* descending value, candidates of equal value keeping their order.
SortedByReversingTies(candidates, key) ==
  LET n == Len(candidates)
      order == SortAsc([i \in 1..n |-> i], [i \in 1..n |-> Get(candidates[i], key, 0)])
  IN [j \in 1..n |-> candidates[order[n + 1 - j]]]
SortedBy(candidates, key) ==
  LET n == Len(candidates)
      order == SortDesc([i \in 1..n |-> i], [i \in 1..n |-> Get(candidates[i], key, 0)])
  IN [j \in 1..n |-> candidates[order[j]]]
SortedByScore(candidates) == SortedBy(candidates, "score")

\* Lines 85-87 and 113-115: a candidate without "score" gets its
\* retrieval_score (0 if it has none); one with "score" keeps it.
FallbackScoresOverwrite(candidates) ==
  [i \in 1..Len(candidates) |->
     SetItem(candidates[i], "score", Get(candidates[i], "retrieval_score", 0))]
FallbackScores(candidates) ==
  [i \in 1..Len(candidates) |->
     IF "score" \in DOMAIN candidates[i] THEN candidates[i]
     ELSE SetItem(candidates[i], "score", Get(candidates[i], "retrieval_score", 0))]

\* Lines 100-102: candidates[result.index]["score"] = result.relevance_score
\* for the results in order.  An index outside -n..n-1 raises IndexError
\* with the earlier results already applied; a negative index counts from
\* the end of the list.
RECURSIVE AttachScoresByRank(_, _)
AttachScoresByRank(candidates, results) ==
  IF Len(results) = 0 THEN [raised |-> FALSE, candidates |-> candidates]
  ELSE LET r == AttachScoresByRank(candidates, SubSeq(results, 1, Len(results) - 1))
           at == Len(results)
       IN IF r.raised \/ at > Len(candidates) THEN [raised |-> TRUE, candidates |-> r.candidates]
          ELSE [raised |-> FALSE,
                candidates |-> [r.candidates EXCEPT ![at] =
                   SetItem(r.candidates[at], "score", results[at].relevance_score)]]
RECURSIVE AttachScores(_, _)
AttachScores(candidates, results) ==
  IF Len(results) = 0 THEN [raised |-> FALSE, candidates |-> candidates]
  ELSE LET idx == Head(results).index
           n == Len(candidates)
           at == IF idx < 0 THEN n + idx + 1 ELSE idx + 1
       IN IF at < 1 \/ at > n THEN [raised |-> TRUE, candidates |-> candidates]
          ELSE AttachScores([candidates EXCEPT ![at] =
                               SetItem(candidates[at], "score", Head(results).relevance_score)],
                            Tail(results))

\* The request of lines 92-97.
RerankModel == <<"r","e","r","a","n","k","-","v","3",".","5">>
RerankRequest(query, candidates) ==
  [ model |-> RerankModel,
    query |-> query,
    documents |-> [i \in 1..Len(candidates) |-> candidates[i].text],
    top_n |-> Len(candidates) ]

\* CrossEncoder.rank, given whether self.available holds and what the
\* re-rank endpoint does with the request: it raises, or it returns
\* results.  The result: whether rank raised, the requests it sent and the
\* list it returned.
Rank(query, candidates, available, outcome) ==
  IF Len(candidates) = 0
  THEN [raised |-> FALSE, requests |-> <<>>, returned |-> candidates]
  ELSE IF ~available
  THEN [raised |-> FALSE, requests |-> <<>>,
        returned |-> SortedByScore(FallbackScores(candidates))]
  ELSE LET attached == IF outcome.raises THEN [raised |-> TRUE, candidates |-> candidates]
                       ELSE AttachScores(candidates, outcome.results)
       IN [ raised |-> FALSE,
            requests |-> <<RerankRequest(query, candidates)>>,
            returned |-> IF attached.raised
                         THEN SortedByScore(FallbackScores(attached.candidates))
                         ELSE SortedByScore(attached.candidates) ]

\* _get_client (lines 16-43) on the module globals m = [_client,
\* _available], with whether settings.COHERE_API_KEY is set and whether
\* cohere.ClientV2(api_key) can be constructed.  The result: the globals
\* after the call, the client returned, and whether the key was read.
ClientV2 == Some("ClientV2")
GetClientOnce(m, api_key, constructible) ==
  IF m._available = None
  THEN IF api_key /\ constructible
       THEN [globals |-> [_client |-> ClientV2, _available |-> Some(TRUE)],
             client |-> ClientV2, probed |-> TRUE]
       ELSE [globals |-> [m EXCEPT !._available = Some(FALSE)], client |-> None, probed |-> TRUE]
  ELSE [globals |-> m, client |-> IF m._available = Some(TRUE) THEN m._client ELSE None,
        probed |-> FALSE]
GetClient(m, api_key, constructible) ==
  IF m._available = None \/ m._available = Some(FALSE)
  THEN IF ~api_key
       THEN [globals |-> [m EXCEPT !._available = Some(FALSE)], client |-> None, probed |-> TRUE]
       ELSE IF constructible
       THEN [globals |-> [_client |-> ClientV2, _available |-> Some(TRUE)],
             client |-> ClientV2, probed |-> TRUE]
       ELSE [globals |-> [m EXCEPT !._available = Some(FALSE)], client |-> None, probed |-> TRUE]
  ELSE [globals |-> m, client |-> IF m._available = Some(TRUE) THEN m._client ELSE None,
        probed |-> FALSE]

\* CrossEncoder.client (lines 56-61) on an instance whose _client is
\* self_client: the instance keeps a client once it has one.
Client(self_client, m, api_key, constructible) ==
  IF self_client = None
  THEN LET got == GetClient(m, api_key, constructible)
       IN [self_client |-> got.client, globals |-> got.globals, probed |-> got.probed]
  ELSE [self_client |-> self_client, globals |-> m, probed |-> FALSE]

\* `self.ranker and self.ranker.available` (service.py line 209, search.py
\* line 325): get_ranker creates the CrossEncoder on first use, and
\* available asks the instance for its client.  The use is recorded.
Available(r, constructible) ==
  LET c == Client(r.self_client, r.globals, r.api_key, constructible)
  IN [r EXCEPT !.created = TRUE,
               !.self_client = c.self_client,
               !.globals = c.globals,
               !.use = [made |-> TRUE, api_key |-> r.api_key, constructible |-> constructible,
                        before |-> r.self_client # None,
                        retried |-> r.globals._available = Some(FALSE),
                        probed |-> c.probed,
                        available |-> c.self_client # None]]

\* ------------------------------------------------------------------------
\* Retriever.retrieve and AIService.search as functions of what they read
\* ------------------------------------------------------------------------

\* The hit of the vector search that carries id.
HitOf(hits, id) == hits[CHOOSE i \in 1..Len(hits) : hits[i].id = id]

\* HybridSearch.search lines 259-295 on the hits of the vector search and
\* their documents: lexical scores, fusion, ranking.
HybridRanked(original, hits, docs) ==
  [ ranked |-> Ranked([i \in 1..Len(hits) |-> hits[i].id], IsSkillQuery(original),
                      [id \in DOMAIN docs |-> VectorScore(HitOf(hits, id).distance)] @@ <<>>,
                      Bm25Score(original, docs) @@ <<>>),
    docs |-> docs ]

\* Lines 245-257: no hits returns [], {} at once.
HybridHits(original, hits) ==
  IF Len(hits) = 0 THEN [ranked |-> <<>>, docs |-> <<>>]
  ELSE HybridRanked(original, hits,
                    [id \in {hits[i].id : i \in 1..Len(hits)} |-> HitOf(hits, id).document] @@ <<>>)

\* HybridSearch.search (lines 231-295) with self.original_query = original:
\* the fused ranking and the texts of the retrieved segments.
HybridSearch(coll, original, query, filters, k) ==
  HybridHits(original, StoreSearch(coll, query, k, filters))

\* The ports a query uses; one of them may fail during a call.
NoFault == "none"
EmbedFault == "embed"
IndexFault == "index"

\* Retriever.retrieve lines 85-139: what a call that did not raise
\* returns, built from the ranking found.
RetrieveResultSorted(parsed, found) ==
  [ raised |-> FALSE, original_query |-> parsed.query, clean_query |-> parsed.query,
    ranked |-> found.ranked,
    candidates |-> SortedBy(Candidates(GroupByCv(found.ranked, found.docs)), "retrieval_score") ]
RetrieveResult(parsed, found) ==
  [ raised |-> FALSE, original_query |-> parsed.query, clean_query |-> parsed.query,
    ranked |-> found.ranked,
    candidates |-> Candidates(GroupByCv(found.ranked, found.docs)) ]

\* Lines 75-81: the search without filters if the filtered one found
\* nothing (or was not made).
RetrieveFallback(coll, parsed, top_k, filtered) ==
  RetrieveResult(parsed,
                 IF Len(filtered.ranked) = 0
                 THEN HybridSearch(coll, parsed.query, Embed(parsed.query), None, FallbackK(top_k))
                 ELSE filtered)

\* Retriever.retrieve (lines 20-139) called alone: whether it raised, the
\* value it left in HybridSearch.original_query, and clean_query and
\* candidates (with the fused ranking they were built from).  embed (line
\* 43) and store.search (hybrid_search.py line 239) are called outside any
\* try, so an exception of theirs leaves retrieve: before line 47 for
\* embed, after it for the index.
RetrieveParsed(coll, parsed, ui_filters, top_k, fault, original_before) ==
  IF fault = EmbedFault
  THEN [ raised |-> TRUE, original_query |-> original_before, clean_query |-> <<>>,
         ranked |-> <<>>, candidates |-> <<>> ]
  ELSE IF fault = IndexFault
  THEN [ raised |-> TRUE, original_query |-> parsed.query, clean_query |-> <<>>,
         ranked |-> <<>>, candidates |-> <<>> ]
  ELSE RetrieveFallback(coll, parsed, top_k,
         IF parsed.filters # None
         THEN HybridSearch(coll, parsed.query, Embed(parsed.query), parsed.filters,
                           FetchK(top_k, HasSqlFilters(ui_filters)))
         ELSE [ranked |-> <<>>, docs |-> <<>>])
Retrieve(coll, user_query, ui_filters, top_k, fault, original_before) ==
  RetrieveParsed(coll, Parse(user_query, ui_filters), ui_filters, top_k, fault, original_before)

\* AIService._enrich_with_candidate_ids (lines 233-280): the candidate_id
\* in the metadata of the document's profile segment, if the index holds
\* that segment and the value is truthy, is attached to the candidate.
Enrich(coll, candidates) ==
  [i \in 1..Len(candidates) |->
     LET profile_id == candidates[i].id \o <<"_","p","r","o","f","i","l","e">>
         found == {s \in 1..Len(coll) : coll[s].id = profile_id}
         metadata == coll[CHOOSE s \in found : \A u \in found : s <= u].metadata
     IN IF /\ found # {}
           /\ "candidate_id" \in DOMAIN metadata
           /\ metadata.candidate_id.type = "int"
           /\ metadata.candidate_id.value # 0
        THEN SetItem(candidates[i], "candidate_id", metadata.candidate_id.value)
        ELSE candidates[i]] \o <<>>

\* AIService.search (lines 174-231) on the re-ranker state rk, given what
\* its call of retrieve (line 196) did: whether the except branch was
\* taken, whether the re-ranker was used and with which requests, the
\* re-ranker state after the call, and the list returned.
Search(coll, rk, got, top_k, use_reranking, constructible, outcome) ==
  LET asked == ~got.raised /\ Len(got.candidates) > 0 /\ use_reranking
      asking == IF asked THEN Available(rk, constructible) ELSE rk
      reranked == asked /\ asking.self_client # None
      ranked == Rank(got.clean_query, got.candidates, TRUE, outcome)
      candidates == IF reranked THEN ranked.returned
                    ELSE SortedBy(got.candidates, "retrieval_score")
  IN [ failed |-> got.raised,
       reranked |-> reranked,
       requests |-> IF reranked THEN ranked.requests ELSE <<>>,
       ranker |-> IF reranked THEN Available(asking, constructible) ELSE asking,
       returned |-> IF got.raised \/ Len(got.candidates) = 0 THEN <<>>
                    ELSE Enrich(coll, SubSeq(candidates, 1, Min2(top_k, Len(candidates)))) ]

\* ------------------------------------------------------------------------
\* The search route
\* ------------------------------------------------------------------------

\* column ILIKE '%pattern%' for a pattern without wildcards; NULL matches
\* nothing.
ILike(column, pattern) ==
  column # None /\ Contains(Lower(The(column)), Lower(pattern))

\* apply_filters (lines 67-99) on the rows of the candidates table.
RowPasses(row, filters) ==
  LET min_exp == filters["min_experience"]
      max_exp == filters["max_experience"]
      location == filters["location"]
      languages == filters["languages"]
  IN /\ min_exp # None =>
          (row.years_experience # None /\ The(row.years_experience) >= The(min_exp))
     /\ max_exp # None =>
          (row.years_experience # None /\ The(row.years_experience) <= The(max_exp))
     /\ Truthy(location) => ILike(row.location, The(location))
     /\ Truthy(languages) =>
          \E i \in 1..Len(The(languages)) : ILike(row.languages, The(languages)[i])
ApplyFiltersToNone(rows, filters) == rows
ApplyFilters(rows, filters) ==
  IF filters = None THEN rows
  ELSE LET kept == {i \in 1..Len(rows) : RowPasses(rows[i], The(filters))}
       IN [j \in 1..Cardinality(kept) |-> rows[SelectIdx(Len(rows), kept)[j]]] \o <<>>

\* round(score, 3) of a score in 1/AggScale: to the nearest 1/1000, halves
\* to the even neighbour.
Round3(score) ==
  LET q == score \div 100
      r == score % 100
  IN 100 * (IF r > 50 \/ (r = 50 /\ q % 2 = 1) THEN q + 1 ELSE q)

\* SearchResult(...) of lines 155-165 and 180-190.
SearchResult(row, score) == [id |-> row.id, name |-> row.name, score |-> score]

\* Lines 145-196: the loop over the results of AIService.search, from the
\* i-th on, with the results built so far.
RECURSIVE VerifyFrom(_, _, _, _, _)
VerifyFrom(rag_results, i, base, top_k, results) ==
  IF i > Len(rag_results) \/ Len(results) >= top_k THEN results
  ELSE LET rag_result == rag_results[i]
           score == Round3(Get(rag_result, "score", Get(rag_result, "retrieval_score", 0)))
           text == Get(rag_result, "text", <<>>)
           candidate_id == Get(rag_result, "candidate_id", 0)
           seen_ids == {results[j].id : j \in 1..Len(results)}
           direct == {r \in 1..Len(base) : base[r].id = candidate_id}
           named == SelectIdx(Len(base),
                      {r \in 1..Len(base) :
                         /\ base[r].id \notin seen_ids
                         /\ Len(base[r].name) > 0
                         /\ Contains(Lower(text), Lower(base[r].name))})
           room == top_k - Len(results)
       IN IF candidate_id # 0 /\ candidate_id \notin seen_ids /\ direct # {}
          THEN VerifyFrom(rag_results, i + 1, base, top_k,
                 Append(results, SearchResult(base[CHOOSE r \in direct : TRUE], score)))
          ELSE IF candidate_id = 0
          THEN VerifyFrom(rag_results, i + 1, base, top_k,
                 results \o [j \in 1..Min2(room, Len(named)) |-> SearchResult(base[named[j]], score)])
          ELSE VerifyFrom(rag_results, i + 1, base, top_k, results)

\* _fallback_search (lines 218-277): the rows that pass the filters and
\* hold the query text in name, title, summary or skills, else those that
\* hold one of its words; at most top_k, each with score 0.5.
RowHolds(row, word) ==
  \/ ILike(Some(row.name), word)
  \/ ILike(row.title, word)
  \/ ILike(row.summary, word)
  \/ ILike(Some(Join(<<",">>, row.skills)), word)
TextSearch(rows, query, filters, top_k) ==
  LET query_text == Lower(query)
      base == ApplyFilters(rows, filters)
      whole == SelectIdx(Len(base), {r \in 1..Len(base) : RowHolds(base[r], query_text)})
      keywords == Split(query_text)
      any == SelectIdx(Len(base),
               {r \in 1..Len(base) :
                  \E k \in 1..Len(keywords) : RowHolds(base[r], keywords[k])})
      candidates == IF Len(whole) > 0 THEN whole ELSE any
  IN [j \in 1..Min2(top_k, Len(candidates)) |-> SearchResult(base[candidates[j]], 50000)] \o <<>>

\* search_candidates (lines 102-215), given what retrieve did within
\* AIService.search, which is called for three times top_k: a non-empty
\* result goes through the rows of the table, an empty one to the text
\* search.
SearchCandidates(coll, rows, rk, got, request, constructible, outcome) ==
  LET found == Search(coll, rk, got, request.top_k * 3, request.use_reranking,
                      constructible, outcome)
  IN [ search |-> found,
       path |-> IF Len(found.returned) > 0 THEN "rag" ELSE "fallback",
       candidates |-> IF Len(found.returned) > 0
                      THEN VerifyFrom(found.returned, 1, ApplyFilters(rows, request.filters),
                                      request.top_k, <<>>)
                      ELSE TextSearch(rows, request.query, request.filters, request.top_k) ]
\* ------------------------------------------------------------------------
\* Inputs
\* ------------------------------------------------------------------------

\* The number of sample records ingested into the index before the first
\* query, and the largest number of experience entries of a record handed
\* to the chunker.
NDocs == 2
MaxEntries == 2

\* A dict built from <<key, optional value>> pairs.
Dict(pairs) ==
  [k \in {pairs[i][1] : i \in 1..Len(pairs)} |->
     (CHOOSE p \in SeqToSet(pairs) : p[1] = k)[2]]

\* One experience entry and one education entry; the i-th entry differs
\* from the others in its role (degree).
ExperienceEntry(i) ==
  [role |-> Some(<<"D","e","v">> \o IntStr(i)), organization |-> None,
   from |-> Some(<<"2","0","2","0">>), to |-> None, description |-> Some(<<"b","a","c","k","e","n","d"," ","l","e","a","d">>)]
EducationEntry(i) ==
  [degree |-> Some(<<"B","S","c">> \o IntStr(i)), field |-> None, institution |-> None,
   from |-> None, to |-> None]

\* The records ingested into the index, in order, with the uuid4 drawn for
\* each.  The third spells the experience key as parser.parse_cv returns
\* it (years_experience), which the chunker does not read.
SampleRecords ==
  << Dict(<< <<"name", Some(<<"A","n","n">>)>>,
             <<"title", Some(<<"F","l","u","t","t","e","r"," ","D","e","v","e","l","o","p","e","r">>)>>,
             <<"skills", Some(<<<<"f","l","u","t","t","e","r">>, <<"d","a","r","t">>>>)>>,
             <<"experience_years", Some(5)>> >>),
     Dict(<< <<"name", Some(<<"B","o","b">>)>>,
             <<"title", Some(<<"S","e","n","i","o","r"," ","E","n","g","i","n","e","e","r">>)>>,
             <<"experience", Some(<<ExperienceEntry(1)>>)>>,
             <<"experience_years", Some(1)>> >>),
     Dict(<< <<"name", Some(<<"C","y">>)>>,
             <<"summary", Some(<<"r","e","a","c","t"," ","a","n","d"," ","f","l","u","t","t","e","r">>)>>,
             <<"skills", Some(<<<<"r","e","a","c","t">>>>)>>,
             <<"years_experience", Some(7)>> >>) >>
SampleUuids == <<<<"a","1">>, <<"b","2">>, <<"c","3">>>>

RECURSIVE IngestFirst(_)
IngestFirst(n) ==
  IF n = 0 THEN <<>> ELSE IngestOne(IngestFirst(n - 1), SampleRecords[n], SampleUuids[n])

\* The index the queries run against: empty, or holding the sample records.
EmptyCollection == <<>>
InitialCollection == IngestFirst(Min2(NDocs, Len(SampleRecords)))

\* The query texts.
QueryFlutter == <<"f","l","u","t","t","e","r">>
QueryJobDescription ==
  <<"L","o","o","k","i","n","g"," ","f","o","r"," ","a"," ","s","e","n","i","o","r"," ","b","a","c","k","e","n","d"," ","e","n","g","i","n","e","e","r"," ","w","i","t","h"," ","f","i","v","e"," ","y","e","a","r","s"," ","e","x","p","e","r","i","e","n","c","e">>
QueryTeamLead == <<" ","s","e","n","i","o","r"," ","s","o","f","t","w","a","r","e"," ","e","n","g","i","n","e","e","r"," ","t","e","a","m"," ","l","e","a","d"," ">>
Queries == {QueryFlutter, QueryJobDescription, QueryTeamLead}

\* The filter dicts: {} (no filters object), and SearchFilters.model_dump()
\* results, which hold all four keys.
FilterDump(min_exp, max_exp, languages, location) ==
  Dict(<< <<"min_experience", min_exp>>, <<"max_experience", max_exp>>,
          <<"languages", languages>>, <<"location", location>> >>)
NoUiFilters == <<>>
UiFilters ==
  { NoUiFilters,
    FilterDump(None, None, None, None),
    FilterDump(Some(3), None, None, None),
    FilterDump(Some(50), None, None, None),
    FilterDump(None, None, None, Some(<<"B","e","r","l","i","n">>)),
    FilterDump(Some(0), Some(2), Some(<<<<"E","n","g","l","i","s","h">>>>), None),
    FilterDump(Some(50), None, None, Some(<<"B","e","r","l","i","n">>)) }

\* The top_k values: below and above the floor of 20.
TopKs == {5, 30}

\* The callers of the shared Retriever.  c1 passes any of the filter dicts;
\* c2 queries with no filters.
Callers == {"c1", "c2"}
FiltersOf(t) == IF t = "c1" THEN UiFilters ELSE {NoUiFilters}

\* The inputs of overlapping calls.
ConcQueries == {QueryFlutter, QueryTeamLead}
ConcUiFilters == {NoUiFilters, FilterDump(Some(50), None, None, None)}

\* The records handed to the chunker: every combination of the options of
\* each key; Absent leaves the key out.
Absent == <<FALSE, None>>
Present(v) == <<TRUE, v>>
Record(fields) ==
  [k \in {fields[i][1] : i \in {j \in 1..Len(fields) : fields[j][2][1]}} |->
     (CHOOSE f \in SeqToSet(fields) : f[1] = k)[2][2]]
Records ==
  { Record(<< <<"name", Present(Some(<<"A","l">>))>>,
              <<"experience_years", ey>>, <<"title", ti>>, <<"summary", su>>,
              <<"skills", sk>>, <<"languages", la>>, <<"experience", ex>>,
              <<"education", ed>>, <<"certifications", ce>>, <<"projects_or_work", pr>> >>) :
      ey \in {Absent, Present(Some(3))},
      ti \in {Absent, Present(None), Present(Some(<<>>)), Present(Some(<<"D","e","v">>))},
      su \in {Absent, Present(Some(<<"G","o">>))},
      sk \in {Absent, Present(None), Present(Some(<<<<"g","o">>, <<"s","q","l">>>>))},
      la \in {Absent, Present(None), Present(Some(<<>>)),
              Present(Some(<<[name |-> Some(<<"E","n">>), level |-> None],
                             [name |-> None, level |-> Some(<<"B","1">>)]>>))},
      ex \in {Absent, Present(None)}
             \cup {Present(Some([i \in 1..n |-> ExperienceEntry(i)])) : n \in 0..MaxEntries},
      ed \in {Absent, Present(Some(<<EducationEntry(1)>>))},
      ce \in {Absent, Present(Some(<<<<"p","m","p">>>>))},
      pr \in {Absent, Present(None), Present(Some(<<<<"a","p","p">>>>))} }

\* The records handed to ingest_cv: with and without a name, a location,
\* the years of experience, a title, languages and experience entries.
IngestRecords ==
  { Record(<< <<"name", na>>, <<"location", lo>>, <<"experience_years", ey>>,
              <<"title", ti>>, <<"skills", Present(Some(<<<<"g","o">>, <<"s","q","l">>>>))>>,
              <<"languages", la>>, <<"experience", ex>> >>) :
      na \in {Absent, Present(Some(<<"A","l">>))},
      lo \in {Absent, Present(None), Present(Some(<<"O","s","l","o">>))},
      ey \in {Absent, Present(None), Present(Some(3))},
      ti \in {Absent, Present(Some(<<"D","e","v">>))},
      la \in {Absent, Present(None),
              Present(Some(<<[name |-> Some(<<"E","n">>), level |-> None]>>))},
      ex \in {Absent} \cup {Present(Some([i \in 1..n |-> ExperienceEntry(i)])) : n \in 1..MaxEntries} }

\* The candidate_id arguments of ingest_cv.
CandidateIdsOfIngest == {None, Some(7)}

\* The values uuid4 can return.
Uuids == {<<"u","1">>, <<"u","2">>}


\* ------------------------------------------------------------------------
\* Inputs of the re-ranker
\* ------------------------------------------------------------------------

\* The longest candidate list handed to rank directly.
MaxCandidates == 3

\* The candidates of a list handed to rank: the i-th has its own id and
\* text, and either a retrieval score, or a retrieval score and a score
\* from an earlier ranking, or neither.
CandidateIds == << <<"a">>, <<"b">>, <<"c">>, <<"d">>, <<"e">> >>
CandidateTexts == << <<"A","n","n">>, <<"B","o","b">>, <<"C","y">>, <<"D","i">>, <<"E","d">> >>
CandidateShapes == {"low", "high", "scored", "bare"}
RankCandidate(i, shape) ==
  LET base == [id |-> CandidateIds[i], text |-> CandidateTexts[i]]
  IN IF shape = "low" THEN SetItem(base, "retrieval_score", 30000)
     ELSE IF shape = "high" THEN SetItem(base, "retrieval_score", 80000)
     ELSE IF shape = "scored"
     THEN SetItem(SetItem(base, "retrieval_score", 30000), "score", 50000)
     ELSE base @@ <<>>
RankInputs ==
  UNION { {[i \in 1..n |-> RankCandidate(i, shapes[i])] \o <<>> : shapes \in [1..n -> CandidateShapes]} :
          n \in 0..MaxCandidates }
RankQuery == <<"f","l","u","t","t","e","r">>

\* What the re-rank endpoint does with a request of n documents: it
\* raises; or it returns one result per document, most relevant first; or
\* only the most relevant one; or a list whose last index is past the end
\* of the documents.  The relevance it finds is the same for every
\* document, or rises along the list, or singles out the first or the last
\* document.  NoOutcome stands for no request made.
NoOutcome == [raises |-> FALSE, results |-> <<>>]
Relevances(n) ==
  { [i \in 1..n |-> 90000],
    [i \in 1..n |-> 10000 * i],
    [i \in 1..n |-> IF i = 1 THEN 90000 ELSE 20000],
    [i \in 1..n |-> IF i = n THEN 90000 ELSE 20000] }
FullResults(relevance) ==
  LET n == Len(relevance)
      order == SortDesc([i \in 1..n |-> i], relevance)
  IN [j \in 1..n |-> [index |-> order[j] - 1, relevance_score |-> relevance[order[j]]]] \o <<>>
Outcomes(n) ==
  {[raises |-> TRUE, results |-> <<>>]}
  \cup UNION { LET full == FullResults(relevance)
               IN { [raises |-> FALSE, results |-> full],
                    [raises |-> FALSE, results |-> SubSeq(full, 1, 1)],
                    [raises |-> FALSE, results |->
                       [full EXCEPT ![n] = [index |-> n, relevance_score |-> full[n].relevance_score]]] } :
               relevance \in Relevances(n) }

\* ------------------------------------------------------------------------
\* Inputs of the search route
\* ------------------------------------------------------------------------

\* The parsed records behind the indexed documents: a Flutter developer
\* with an unrelated experience entry, a record that lists the skill only,
\* and a record on another subject.
SearchRecords ==
  << Dict(<< <<"name", Some(<<"A","n","n">>)>>,
             <<"title", Some(<<"F","l","u","t","t","e","r"," ","D","e","v","e","l","o","p","e","r">>)>>,
             <<"skills", Some(<<<<"f","l","u","t","t","e","r">>, <<"d","a","r","t">>>>)>>,
             <<"experience", Some(<<ExperienceEntry(1)>>)>>,
             <<"education", Some(<<EducationEntry(1)>>)>>,
             <<"experience_years", Some(5)>> >>),
     Dict(<< <<"name", Some(<<"B","o","b">>)>>,
             <<"skills", Some(<<<<"f","l","u","t","t","e","r">>>>)>>,
             <<"experience_years", Some(1)>> >>),
     Dict(<< <<"name", Some(<<"C","y">>)>>,
             <<"summary", Some(<<"s","e","n","i","o","r"," ","e","n","g","i","n","e","e","r">>)>>,
             <<"location", Some(<<"O","s","l","o">>)>>,
             <<"languages", Some(<< [name |-> Some(<<"N","o","r","w","e","g","i","a","n">>),
                                     level |-> Some(<<"N","a","t","i","v","e">>)] >>)>>,
             <<"years_experience", Some(7)>> >>) >>

\* The longest sequence of documents in the index a request is served from.
MaxSearchDocs == 2

\* The cv_id drawn when the i-th document was ingested, and the id of its
\* row in the candidates table.
SearchUuids == << <<"p","1">>, <<"q","2">>, <<"r","3">>, <<"s","4">> >>
RowId(i) == 10 + i

\* The languages column (JSONB) cast to text, as line 92 reads it.
LanguagesColumn(languages) ==
  <<"[">> \o Join(<<",", " ">>,
                  [i \in 1..Len(languages) |->
                     <<"{","\"","n","a","m","e","\"",":"," ","\"">> \o Fmt(languages[i].name)
                     \o <<"\"",","," ","\"","l","e","v","e","l","\"",":"," ","\"">>
                     \o Fmt(languages[i].level) \o <<"\"","}">>])
  \o <<"]">>

\* The row of the candidates table for a record stored under id.
RowOf(cv_json, id) ==
  [ id |-> id,
    name |-> The(cv_json["name"]),
    title |-> Get(cv_json, "title", None),
    summary |-> Get(cv_json, "summary", None),
    location |-> Get(cv_json, "location", None),
    skills |-> The(Get(cv_json, "skills", Some(<<>>))),
    languages |-> Some(LanguagesColumn(The(Get(cv_json, "languages", Some(<<>>))))),
    years_experience |-> IF "experience_years" \in DOMAIN cv_json
                         THEN cv_json["experience_years"]
                         ELSE Get(cv_json, "years_experience", None) ]

\* The index and the table after the records picked were stored and
\* ingested in order, with the candidate_id of their row (with_ids) or by
\* the pipeline alone, which stores no candidate_id.
RECURSIVE Stored(_, _)
Stored(picks, with_ids) ==
  IF Len(picks) = 0 THEN [collection |-> <<>>, rows |-> <<>>]
  ELSE LET n == Len(picks)
           before == Stored(SubSeq(picks, 1, n - 1), with_ids)
           cv_json == SearchRecords[picks[n]]
       IN [ collection |-> IngestCv(before.collection, cv_json,
                                    IF with_ids THEN Some(RowId(n)) ELSE None,
                                    SearchUuids[n]).collection,
            rows |-> before.rows \o <<RowOf(cv_json, RowId(n))>> ]
\* The stores a request is served from; the index may have been cleared
\* since (AIService.clear_vector_store), the table keeping its rows.
Cleared(store) == [collection |-> <<>>, rows |-> store.rows]
SearchStores ==
  UNION { {Stored(picks, with_ids) :
             picks \in [1..n -> 1..Len(SearchRecords)], with_ids \in BOOLEAN}
          \cup {Cleared(Stored(picks, TRUE)) : picks \in [1..n -> 1..Len(SearchRecords)]} :
          n \in 0..MaxSearchDocs }

\* The requests: a skill query and a longer one; no filters object, an
\* experience filter, a location filter, a languages filter; one or ten
\* results wanted.
SearchRequests ==
  [ query : {QueryFlutter, QueryTeamLead},
    filters : {None,
               Some(FilterDump(Some(3), None, None, None)),
               Some(FilterDump(None, None, None, Some(<<"O","s","l","o">>))),
               Some(FilterDump(None, None, Some(<< <<"n","o","r","w","e","g","i","a","n">> >>), None))},
    top_k : {1, 10},
    use_reranking : BOOLEAN ]
Faults == {NoFault, EmbedFault, IndexFault}

\* ------------------------------------------------------------------------
\* Tokenization of a query
\* ------------------------------------------------------------------------

\* No query tokenized yet.
IdleTokens ==
  [ stage |-> "idle", query |-> <<>>, keywords |-> <<>>, words |-> <<>>, is_skill |-> FALSE ]

\* The queries tokenized: up to MaxQueryWords words, each followed by a
\* space or by a comma and a space; a skill of the vocabulary, stop words,
\* a one-letter word and words that are neither.
MaxQueryWords == 3
QueryWords ==
  { <<"R","e","a","c","t">>, <<"t","h","e">>, <<"f","o","r">>, <<"x">>,
    <<"s","e","n","i","o","r">>, <<"l","e","a","d">> }
QuerySeparators == { <<" ">>, <<",", " ">> }
RECURSIVE QueriesOfLength(_)
QueriesOfLength(n) ==
  IF n = 1 THEN QueryWords
  ELSE { q \o s \o w : q \in QueriesOfLength(n - 1), s \in QuerySeparators, w \in QueryWords }
TokenQueries == UNION { QueriesOfLength(n) : n \in 1..MaxQueryWords }

\* ------------------------------------------------------------------------
\* Import of a CV (upload, Gmail), the candidates table, the admin reindex
\* ------------------------------------------------------------------------

\* What Gemini extracted from the CV files imported: the prompt asks for
\* experience_years as an integer and for every list.
GeminiOutputs ==
  { Dict(<< <<"name", Some(<<"A","n","n">>)>>,
            <<"title", Some(<<"D","e","v">>)>>,
            <<"skills", Some(<<<<"g","o">>>>)>>,
            <<"experience_years", Some(3)>> >>),
    Dict(<< <<"name", Some(<<"B","o","b">>)>>,
            <<"skills", Some(<<<<"s","q","l">>>>)>>,
            <<"experience", Some(<<ExperienceEntry(1)>>)>>,
            <<"experience_years", Some(6)>> >>) }

\* parse_cv, lines 380-403: the record returned for what Gemini extracted.
\* email, phone, links and raw_text are left out: nothing downstream of the
\* segmenter reads them.
ParseCv(parsed_data) ==
  Dict(<< <<"name", Get(parsed_data, "name", Some(<<"U","n","k","n","o","w","n">>))>>,
          <<"title", Get(parsed_data, "title", None)>>,
          <<"location", Get(parsed_data, "location", None)>>,
          <<"years_experience", Get(parsed_data, "experience_years", Some(0))>>,
          <<"summary", Get(parsed_data, "summary", None)>>,
          <<"skills", Get(parsed_data, "skills", Some(<<>>))>>,
          <<"languages", Get(parsed_data, "languages", Some(<<>>))>>,
          <<"certifications", Get(parsed_data, "certifications", Some(<<>>))>>,
          <<"projects", Get(parsed_data, "projects_or_work", Some(<<>>))>>,
          <<"education", Get(parsed_data, "education", Some(<<>>))>>,
          <<"experience", Get(parsed_data, "experience", Some(<<>>))>> >>)

\* Candidate(...) as the upload and the Gmail routes build it from the
\* parsed record; id is the key the database gives the new row.
NewCandidate(parsed_data, id) ==
  [ id |-> id,
    name |-> Get(parsed_data, "name", Some(<<"U","n","k","n","o","w","n">>)),
    title |-> Get(parsed_data, "title", None),
    location |-> Get(parsed_data, "location", None),
    years_experience |-> Get(parsed_data, "years_experience", Some(0)),
    summary |-> Get(parsed_data, "summary", None),
    skills |-> Get(parsed_data, "skills", Some(<<>>)),
    languages |-> Get(parsed_data, "languages", Some(<<>>)),
    education |-> Get(parsed_data, "education", Some(<<>>)),
    experience |-> Get(parsed_data, "experience", Some(<<>>)),
    certifications |-> Get(parsed_data, "certifications", Some(<<>>)),
    projects |-> Get(parsed_data, "projects", Some(<<>>)) ]

\* `value or default` on an optional string or list
OrElse(value, default) == IF Truthy(value) THEN value ELSE Some(default)

\* _do_reindex, lines 62-76: the record built from a row of the table.
CvData(candidate) ==
  Dict(<< <<"name", OrElse(candidate.name, <<"U","n","k","n","o","w","n">>)>>,
          <<"location", OrElse(candidate.location, <<>>)>>,
          <<"title", OrElse(candidate.title, <<>>)>>,
          <<"summary", OrElse(candidate.summary, <<>>)>>,
          <<"skills", OrElse(candidate.skills, <<>>)>>,
          <<"years_experience", IF candidate.years_experience = None THEN Some(0)
                                ELSE candidate.years_experience>>,
          <<"languages", OrElse(candidate.languages, <<>>)>>,
          <<"experience", OrElse(candidate.experience, <<>>)>>,
          <<"education", OrElse(candidate.education, <<>>)>>,
          <<"certifications", OrElse(candidate.certifications, <<>>)>>,
          <<"projects", OrElse(candidate.projects, <<>>)>> >>)

\* The n-th value uuid4 returns: each differs from the ones before it.
FreshUuid(n) == <<"u">> \o IntStr(n)

\* The segments of chunked added when the embedder or the index raises on
\* the k-th of them (k = 0: nothing raises): the loops of
\* _ingest_with_candidate_id and ingest_one add one segment per turn and
\* nothing takes a segment back.
AddedBeforeFailureNone(chunks, k) == IF k \in 1..Len(chunks) THEN <<>> ELSE chunks
AddedBeforeFailure(chunks, k) ==
  IF k \in 1..Len(chunks) THEN SubSeq(chunks, 1, k - 1) ELSE chunks

\* AIService.ingest_cv when the embedder or the index raises on the k-th
\* segment: the exception is caught at line 120 and False returned.
IngestChunked(coll, chunked, candidate_id, k) ==
  IF chunked.raised THEN [ok |-> FALSE, chunks |-> <<>>, collection |-> coll]
  ELSE [ ok |-> k \notin 1..Len(chunked.chunks),
         chunks |-> chunked.chunks,
         collection |->
           IF candidate_id = None
           THEN AddChunks(coll, AddedBeforeFailure(chunked.chunks, k))
           ELSE AddChunksWithCandidateId(coll, AddedBeforeFailure(chunked.chunks, k),
                                         The(candidate_id)) ]
IngestCvFailingAt(coll, cv_json, candidate_id, cv_id, k) ==
  IngestChunked(coll, Chunk(cv_json, cv_id), candidate_id, k)

\* One ingest_cv call as the log of calls keeps it: who called (and which
\* reindex task), the cv_id drawn, the years of experience of the record,
\* the segment that failed, what was returned and how many segments the
\* segmenter produced.
CallEntry(by, task, cv_id, candidate_id, years, k, done) ==
  [ by |-> by, task |-> task, cv_id |-> cv_id, candidate_id |-> candidate_id,
    years |-> years,
    fault |-> IF k \in 1..Len(done.chunks) THEN k ELSE 0,
    ok |-> done.ok, planned |-> Len(done.chunks) ]

\* AIService.ingest_many_cvs, lines 168-172: each record in turn, the
\* i-th under the uuid drawn + i and failing at faults[i]; a record that
\* fails is not counted and the loop goes on.
IngestManyCvsStep(state, done, cv_id, years, k) ==
  [ collection |-> done.collection,
    success_count |-> state.success_count + (IF done.ok THEN 1 ELSE 0),
    calls |-> Append(state.calls, CallEntry("batch", 0, cv_id, None, years, k, done)) ]
RECURSIVE IngestManyCvs(_, _, _, _, _)
IngestManyCvs(state, cv_list, faults, drawn, i) ==
  IF i > Len(cv_list) THEN state
  ELSE IngestManyCvs(
         IngestManyCvsStep(
           state,
           IngestCvFailingAt(state.collection, cv_list[i], None, FreshUuid(drawn + i), faults[i]),
           FreshUuid(drawn + i), Get(cv_list[i], "years_experience", None), faults[i]),
         cv_list, faults, drawn, i + 1)

\* The bounds of a run: CVs imported, reindex requests made, ingest_cv
\* calls made, and those of them the embedder or the index fails.
MaxImports == 2
MaxRequests == 2
MaxCalls == 4
MaxFaults == 1

\* The lists ingest_many_cvs is called with.
BatchLists ==
  { <<ParseCv(g), ParseCv(h)>> : g \in GeminiOutputs, h \in GeminiOutputs }

\* _reindex_status, the candidates table, the background tasks scheduled,
\* the requests refused, the uuid4 values drawn, the ingest_cv calls made
\* and the ingest_many_cvs call made.
IdleReindex ==
  [ running |-> FALSE, progress |-> 0, total |-> 0, success |-> 0, failed |-> 0,
    table |-> <<>>,
    tasks |-> <<>>,
    rejected |-> 0,
    drawn |-> 0,
    calls |-> <<>>,
    batch |-> [called |-> FALSE, cv_list |-> <<>>, success_count |-> 0] ]

\* ------------------------------------------------------------------------
\* The lazily built module globals
\* ------------------------------------------------------------------------

\* _ai_service, _retriever, _ranker, _ingestion_pipeline (service.py) and
\* _model (embedder.py): each None until a getter builds it.
Components == {"ai_service", "retriever", "ranker", "pipeline", "model"}

\* The threads of the server: the event loop, which runs the route handlers
\* one at a time, and the worker thread BackgroundTasks runs _do_reindex in.
Threads == {"loop", "worker"}

\* The getters a thread goes through: the handlers reach all of them;
\* _do_reindex builds its own AIService and reaches _get_model through the
\* Embedder of _ingest_with_candidate_id.
GettersOf(t) == IF t = "loop" THEN Components ELSE {"model"}

\* The getter calls one thread makes in a run.
MaxUses == 3

\* No global set, nothing built, no thread inside a getter.
IdleSingletons ==
  [ globals |-> [c \in Components |-> None],
    built |-> [c \in Components |-> 0],
    thread |-> [t \in Threads |->
                  [pc |-> "idle", component |-> "none", uses |-> 0,
                   obtained |-> [c \in Components |-> None]]] ]
\* ------------------------------------------------------------------------
\* State
\* ------------------------------------------------------------------------

VARIABLES
  collection,      \* the vector index: the stored segments in insertion order
  original_query,  \* HybridSearch.original_query of the shared Retriever
  call,            \* per caller: the frame of its retrieve call
  seg,             \* the segmenter's caller: a record and two chunk() results
  ranker,          \* the re-ranker: settings, module globals, the shared instance
  ranking,         \* the last CrossEncoder.rank call: what it was given and returned
  api,             \* the last request served by AIService.search / the search route
  tokens,          \* the last query HybridSearch.search tokenized, for scoring and for classification
  singletons,      \* the lazily loaded module globals and the threads asking for them
  reindex          \* the admin route: _reindex_status, the requests and the tasks

vars == <<collection, original_query, call, seg, ranker, ranking, api, tokens, singletons, reindex>>

\* The frame of a retrieve call before it starts.  pc is the position in
\* retrieve / HybridSearch.search; searches lists the vector searches made
\* so far; lex_query and cls_query are the values of original_query that
\* bm25_score (line 262) and _is_skill_query (line 265) were given.
IdleCall ==
  [ pc |-> "idle", user_query |-> <<>>, ui_filters |-> <<>>, top_k |-> 0,
    clean_query |-> <<>>, filters |-> None, query_vector |-> <<0, 0>>,
    fetch_k |-> 0, phase |-> "none", where |-> None, k |-> 0,
    searches |-> <<>>, doc_ids |-> <<>>, docs |-> <<>>, vector_scores |-> <<>>,
    lex_query |-> None, raw_scores |-> <<>>, bm25_scores |-> <<>>,
    cls_query |-> None, is_skill |-> None, ranked |-> <<>>,
    candidates |-> <<>> ]

IdleSeg ==
  [ stage |-> "idle", cv_json |-> <<>>, used |-> {},
    first |-> [raised |-> FALSE, chunks |-> <<>>],
    second |-> [raised |-> FALSE, chunks |-> <<>>] ]

\* The re-ranker before its first use: no key in the settings, the module
\* globals of cross_encoder.py unset (lines 12-13), no CrossEncoder created
\* yet (service.py _ranker), and no use recorded.  A use records the key
\* and whether the client could be built, whether the instance had its
\* client before, whether _available was False before, whether the key
\* was read, and what the use found.
IdleRanker ==
  [ api_key |-> FALSE,
    globals |-> [_client |-> None, _available |-> None],
    created |-> FALSE,
    self_client |-> None,
    use |-> [made |-> FALSE, api_key |-> FALSE, constructible |-> FALSE,
             before |-> FALSE, retried |-> FALSE, probed |-> FALSE, available |-> FALSE] ]

IdleRanking ==
  [ called |-> FALSE, query |-> <<>>, given |-> <<>>, available |-> FALSE,
    outcome |-> NoOutcome, raised |-> FALSE, requests |-> <<>>, returned |-> <<>> ]

\* The web layer before a request: the rows of the candidates table, and
\* nothing received.  A request is received with what happens to the
\* ports during it; retrieved is what retrieve did, response what the
\* route answered.
IdleApi ==
  [ stage |-> "idle", rows |-> <<>>,
    request |-> [query |-> <<>>, filters |-> None, top_k |-> 0, use_reranking |-> FALSE],
    fault |-> "none",
    retrieved |-> [raised |-> FALSE, original_query |-> <<>>, clean_query |-> <<>>,
                   ranked |-> <<>>, candidates |-> <<>>],
    search |-> [failed |-> FALSE, reranked |-> FALSE, requests |-> <<>>, returned |-> <<>>],
    outcome |-> NoOutcome,
    response |-> [path |-> "none", candidates |-> <<>>] ]

Init ==
  /\ collection \in {EmptyCollection, InitialCollection}
  /\ original_query = <<>>
  /\ call = [t \in Callers |-> IdleCall]
  /\ seg = IdleSeg
  /\ ranker = IdleRanker
  /\ ranking = IdleRanking
  /\ api = IdleApi
  /\ tokens = IdleTokens
  /\ singletons = IdleSingletons
  /\ reindex = IdleReindex

\* ------------------------------------------------------------------------
\* Retriever.retrieve, step by step
\* ------------------------------------------------------------------------

NoCallInFlight == \A u \in Callers : call[u].pc \in {"idle", "done"}

\* retrieve is entered with its arguments.
Enter(t, user_query, ui_filters, top_k) ==
  /\ call[t].pc \in {"idle", "done"}
  /\ call' = [call EXCEPT ![t] =
                [IdleCall EXCEPT !.pc = "entered",
                                 !.user_query = user_query,
                                 !.ui_filters = ui_filters,
                                 !.top_k = top_k]]
  /\ UNCHANGED <<collection, original_query, seg, ranker, ranking, api, tokens, singletons, reindex>>

\* A call made while no other call is running (the search route awaits
\* nothing between entering and leaving AIService.search).
CallAlone(t) ==
  /\ NoCallInFlight
  /\ \E q \in Queries, f \in FiltersOf(t), k \in TopKs : Enter(t, q, f, k)

\* A call made whatever the other callers are doing.
CallOverlapping(t) ==
  \E q \in ConcQueries, f \in ConcUiFilters : Enter(t, q, f, 5)

\* The frame when the next hybrid.search is about to run.
StartSearch(frame, phase, where, k) ==
  [frame EXCEPT !.pc = "search", !.phase = phase, !.where = where, !.k = k]

\* The fallback of lines 75-81 passes filters=None and fallback_k.
FallbackSearchKeepsFilter(frame) ==
  StartSearch(frame, "fallback", frame.filters, FallbackK(frame.top_k))
FallbackSearch(frame) ==
  StartSearch(frame, "fallback", None, FallbackK(frame.top_k))

\* Lines 33-68: parse and embed the query, publish it on the shared
\* HybridSearch (line 47), size the pool, and start the filtered search if
\* there are filters, else the fallback (`if not ranked` holds of the
\* initial empty list).
SetQuery(t) ==
  /\ call[t].pc = "entered"
  /\ LET parsed == Parse(call[t].user_query, call[t].ui_filters)
         fetch_k == FetchK(call[t].top_k, HasSqlFilters(call[t].ui_filters))
         frame == [call[t] EXCEPT !.clean_query = parsed.query,
                                  !.filters = parsed.filters,
                                  !.query_vector = Embed(parsed.query),
                                  !.fetch_k = fetch_k]
     IN /\ original_query' = parsed.query
        /\ call' = [call EXCEPT ![t] =
                      IF frame.filters # None
                      THEN StartSearch(frame, "filtered", frame.filters, fetch_k)
                      ELSE FallbackSearch(frame)]
  /\ UNCHANGED <<collection, seg, ranker, ranking, api, tokens, singletons, reindex>>

\* hybrid.search has returned ranked, docs to retrieve: lines 75-83 decide
\* between the fallback search and grouping.
AfterSearch(frame) ==
  IF Len(frame.ranked) = 0 /\ frame.phase = "filtered"
  THEN FallbackSearch(frame)
  ELSE [frame EXCEPT !.pc = "group"]

\* HybridSearch.search lines 239-257: the vector search; no hits returns
\* [], {} at once.
VectorSearch(t) ==
  /\ call[t].pc = "search"
  /\ LET hits == StoreSearch(collection, call[t].query_vector, call[t].k, call[t].where)
         ids == [i \in 1..Len(hits) |-> hits[i].id]
         logged == [call[t] EXCEPT !.searches =
                      Append(@, [where |-> call[t].where, k |-> call[t].k, hits |-> Len(hits)])]
     IN call' = [call EXCEPT ![t] =
                   IF Len(hits) = 0
                   THEN AfterSearch([logged EXCEPT !.ranked = <<>>, !.docs = <<>>, !.doc_ids = <<>>])
                   ELSE [logged EXCEPT
                           !.pc = "bm25",
                           !.doc_ids = ids,
                           !.docs = [id \in SeqToSet(ids) |->
                                       hits[CHOOSE i \in 1..Len(hits) : hits[i].id = id].document],
                           !.vector_scores = [id \in SeqToSet(ids) |->
                                       VectorScore(hits[CHOOSE i \in 1..Len(hits) : hits[i].id = id].distance)]]]
  /\ UNCHANGED <<collection, original_query, seg, ranker, ranking, api, tokens, singletons, reindex>>

\* Line 262: bm25_score(self.original_query, docs).
LexicalScoring(t) ==
  /\ call[t].pc = "bm25"
  /\ LET raw == RawScores(original_query, call[t].docs)
     IN call' = [call EXCEPT ![t] =
                   [call[t] EXCEPT !.pc = "fuse",
                             !.lex_query = Some(original_query),
                             !.raw_scores = raw,
                             !.bm25_scores = [id \in DOMAIN raw |-> Normalize(raw[id], BatchMax(raw))] @@ <<>>]]
  /\ UNCHANGED <<collection, original_query, seg, ranker, ranking, api, tokens, singletons, reindex>>

\* Lines 265-295: classify self.original_query, fuse, rank, return.
Fusion(t) ==
  /\ call[t].pc = "fuse"
  /\ LET is_skill == IsSkillQuery(original_query)
     IN call' = [call EXCEPT ![t] =
                   AfterSearch([call[t] EXCEPT
                     !.cls_query = Some(original_query),
                     !.is_skill = Some(is_skill),
                     !.ranked = Ranked(call[t].doc_ids, is_skill,
                                       call[t].vector_scores, call[t].bm25_scores)])]
  /\ UNCHANGED <<collection, original_query, seg, ranker, ranking, api, tokens, singletons, reindex>>

\* Lines 85-139: group by document, score, build the candidates, return.
\* The locals of the call end with it; what the caller holds is candidates
\* (ranked is kept as the record of what they were built from).
Grouping(t) ==
  /\ call[t].pc = "group"
  /\ LET results == GroupByCv(call[t].ranked, call[t].docs)
     IN call' = [call EXCEPT ![t] =
                   [call[t] EXCEPT !.pc = "done",
                             !.candidates = Candidates(results),
                             !.doc_ids = <<>>, !.docs = <<>>, !.vector_scores = <<>>,
                             !.raw_scores = <<>>, !.bm25_scores = <<>>]]
  /\ UNCHANGED <<collection, original_query, seg, ranker, ranking, api, tokens, singletons, reindex>>

RetrieveStep(t) ==
  \/ SetQuery(t)
  \/ VectorSearch(t)
  \/ LexicalScoring(t)
  \/ Fusion(t)
  \/ Grouping(t)

\* ------------------------------------------------------------------------
\* CVChunker.chunk called on a record, and again on the same record
\* ------------------------------------------------------------------------

ChooseRecord ==
  /\ seg.stage = "idle"
  /\ \E r \in Records : seg' = [seg EXCEPT !.stage = "chosen", !.cv_json = r]
  /\ UNCHANGED <<collection, original_query, call, ranker, ranking, api, tokens, singletons, reindex>>

\* uuid4 (line 14) returns a value it has not returned before.
SegmentFirst ==
  /\ seg.stage = "chosen"
  /\ \E u \in Uuids \ seg.used :
       seg' = [seg EXCEPT !.stage = "once", !.used = @ \cup {u},
                          !.first = Chunk(seg.cv_json, u)]
  /\ UNCHANGED <<collection, original_query, call, ranker, ranking, api, tokens, singletons, reindex>>

SegmentAgain ==
  /\ seg.stage = "once"
  /\ \E u \in Uuids \ seg.used :
       seg' = [seg EXCEPT !.stage = "twice", !.used = @ \cup {u},
                          !.second = Chunk(seg.cv_json, u)]
  /\ UNCHANGED <<collection, original_query, call, ranker, ranking, api, tokens, singletons, reindex>>

\* A parsed record arrives for ingestion.
ReceiveRecord ==
  /\ seg.stage = "idle"
  /\ \E r \in IngestRecords : seg' = [seg EXCEPT !.stage = "received", !.cv_json = r]
  /\ UNCHANGED <<collection, original_query, call, ranker, ranking, api, tokens, singletons, reindex>>

\* AIService.ingest_cv on the record, with or without a candidate_id: the
\* segments chunk returned are kept in first.
IngestRecord ==
  /\ seg.stage = "received"
  /\ \E u \in Uuids \ seg.used, candidate_id \in CandidateIdsOfIngest :
       LET done == IngestCv(collection, seg.cv_json, candidate_id, u)
       IN /\ collection' = done.collection
          /\ seg' = [seg EXCEPT !.stage = "ingested", !.used = @ \cup {u},
                                !.first = [raised |-> ~done.ok, chunks |-> done.chunks]]
  /\ UNCHANGED <<original_query, call, ranker, ranking, api, tokens, singletons, reindex>>

\* ------------------------------------------------------------------------
\* Specifications
\* ------------------------------------------------------------------------

\* Retrieval as the search route drives it: one retrieve at a time on the
\* shared Retriever.
Next ==
  \E t \in Callers : CallAlone(t) \/ RetrieveStep(t)
Spec == Init /\ [][Next]_vars

\* Retrieval with callers that overlap.
NextConc ==
  \E t \in Callers : CallOverlapping(t) \/ RetrieveStep(t)
SpecConc == Init /\ [][NextConc]_vars

\* The segmenter on its own.
NextChunk == ChooseRecord \/ SegmentFirst \/ SegmentAgain
SpecChunk == Init /\ [][NextChunk]_vars

\* Ingestion of one record into the index.
NextIngest == ReceiveRecord \/ IngestRecord
SpecIngest == Init /\ [][NextIngest]_vars

\* ------------------------------------------------------------------------
\* The re-ranker in use
\* ------------------------------------------------------------------------

\* settings.COHERE_API_KEY is set, or unset, by the environment.
SetApiKey ==
  /\ ranker' = [ranker EXCEPT !.api_key = ~ranker.api_key]
  /\ UNCHANGED <<collection, original_query, call, seg, ranking, api, tokens, singletons, reindex>>

\* The health route asks whether the re-ranker is available.
CheckAvailable ==
  /\ \E constructible \in BOOLEAN : ranker' = Available(ranker, constructible)
  /\ UNCHANGED <<collection, original_query, call, seg, ranking, api, tokens, singletons, reindex>>

\* CrossEncoder.rank called with a list of candidates: line 83 asks for
\* availability unless the list is empty, and the endpoint answers the
\* request if one is made.  A run makes one such call.
RankCall ==
  /\ ~ranking.called
  /\ \E candidates \in RankInputs, constructible \in BOOLEAN :
       LET r == IF Len(candidates) = 0 THEN ranker ELSE Available(ranker, constructible)
           available == Len(candidates) > 0 /\ r.self_client # None
       IN \E outcome \in IF available THEN Outcomes(Len(candidates)) ELSE {NoOutcome} :
            LET done == Rank(RankQuery, candidates, available, outcome)
            IN /\ ranker' = r
               /\ ranking' = [called |-> TRUE, query |-> RankQuery, given |-> candidates,
                              available |-> available, outcome |-> outcome,
                              raised |-> done.raised, requests |-> done.requests,
                              returned |-> done.returned]
  /\ UNCHANGED <<collection, original_query, call, seg, api, tokens, singletons, reindex>>

\* The re-ranker on its own.
NextRank == SetApiKey \/ CheckAvailable \/ RankCall
SpecRank == Init /\ [][NextRank]_vars

\* ------------------------------------------------------------------------
\* The search route serving a request
\* ------------------------------------------------------------------------

\* The state at start-up of the web layer: some documents ingested and
\* their rows stored.
InitSearch ==
  /\ \E store \in SearchStores :
       /\ collection = store.collection
       /\ api = [IdleApi EXCEPT !.rows = store.rows]
  /\ original_query = <<>>
  /\ call = [t \in Callers |-> IdleCall]
  /\ seg = IdleSeg
  /\ ranker = IdleRanker
  /\ ranking = IdleRanking
  /\ tokens = IdleTokens
  /\ singletons = IdleSingletons
  /\ reindex = IdleReindex

\* POST /api/search/ up to the return of retrieve (search.py line 126,
\* service.py line 196): the request is received and retrieve runs, with
\* or without a failure of a port.
ReceiveSearch ==
  /\ api.stage = "idle"
  /\ \E request \in SearchRequests, fault \in Faults :
       LET got == Retrieve(collection, request.query,
                           IF request.filters = None THEN NoUiFilters ELSE The(request.filters),
                           request.top_k * 3, fault, original_query)
       IN /\ api' = [api EXCEPT !.stage = "retrieved", !.request = request,
                                !.fault = fault, !.retrieved = got]
          /\ original_query' = got.original_query
  /\ UNCHANGED <<collection, call, seg, ranker, ranking, tokens, singletons, reindex>>

\* The rest of the request: AIService.search from line 202 and the route
\* from line 133, with what the re-rank endpoint does if it is called.
RespondSearch ==
  /\ api.stage = "retrieved"
  /\ \E constructible \in BOOLEAN :
       LET asked == /\ ~api.retrieved.raised
                    /\ Len(api.retrieved.candidates) > 0
                    /\ api.request.use_reranking
           reranked == asked /\ Available(ranker, constructible).self_client # None
       IN \E outcome \in IF reranked THEN Outcomes(Len(api.retrieved.candidates))
                         ELSE {NoOutcome} :
            LET done == SearchCandidates(collection, api.rows, ranker, api.retrieved,
                                         api.request, constructible, outcome)
            IN /\ api' = [api EXCEPT !.stage = "served",
                                     !.search = [failed |-> done.search.failed,
                                                 reranked |-> done.search.reranked,
                                                 requests |-> done.search.requests,
                                                 returned |-> done.search.returned],
                                     !.outcome = outcome,
                                     !.response = [path |-> done.path,
                                                   candidates |-> done.candidates]]
               /\ ranker' = done.search.ranker
  /\ UNCHANGED <<collection, original_query, call, seg, ranking, tokens, singletons, reindex>>

\* Requests served one at a time, the key set or unset in between.
NextSearch == SetApiKey \/ ReceiveSearch \/ RespondSearch
SpecSearch == InitSearch /\ [][NextSearch]_vars

\* ------------------------------------------------------------------------
\* HybridSearch.search: the two tokenizations of self.original_query
\* ------------------------------------------------------------------------

\* HybridSearch.search is entered with self.original_query = query.
ReceiveQuery ==
  /\ tokens.stage = "idle"
  /\ \E query \in TokenQueries :
       tokens' = [IdleTokens EXCEPT !.stage = "received", !.query = query]
  /\ UNCHANGED <<collection, original_query, call, seg, ranker, ranking, api, singletons, reindex>>

\* Line 262: bm25_score(self.original_query, docs) extracts its keywords
\* (lines 180-184).
ExtractKeywords ==
  /\ tokens.stage = "received"
  /\ tokens' = [tokens EXCEPT !.stage = "scored", !.keywords = Keywords(tokens.query)]
  /\ UNCHANGED <<collection, original_query, call, seg, ranker, ranking, api, singletons, reindex>>

\* Line 265: _is_skill_query(self.original_query) derives its words (line
\* 108) and classifies the query.
ClassifyQuery ==
  /\ tokens.stage = "scored"
  /\ tokens' = [tokens EXCEPT !.stage = "classified",
                              !.words = SkillWords(tokens.query),
                              !.is_skill = IsSkillQuery(tokens.query)]
  /\ UNCHANGED <<collection, original_query, call, seg, ranker, ranking, api, singletons, reindex>>

NextTokens == ReceiveQuery \/ ExtractKeywords \/ ClassifyQuery
SpecTokens == Init /\ [][NextTokens]_vars

\* ------------------------------------------------------------------------
\* Imports, ingest_many_cvs and the admin reindex
\* ------------------------------------------------------------------------

\* The ingest_cv calls so far on which the embedder or the index failed.
FaultsSoFar == Cardinality({i \in 1..Len(reindex.calls) : reindex.calls[i].fault > 0})

\* Where the embedder or the index may fail while cv_json is ingested:
\* nowhere (0), or on one of its segments.
FaultChoices(cv_json) ==
  IF FaultsSoFar < MaxFaults THEN 0..Len(Chunk(cv_json, <<>>).chunks) ELSE {0}

\* The upload route (import_cv.py, lines 58-116) and the Gmail import route
\* (gmail.py, lines 254-305): the file is parsed, the candidate row is
\* committed and the parsed record is ingested under the key of the row.
ImportCv(source) ==
  /\ Len(reindex.table) < MaxImports
  /\ Len(reindex.calls) < MaxCalls
  /\ \E g \in GeminiOutputs :
       \E k \in FaultChoices(ParseCv(g)) :
         LET parsed_data == ParseCv(g)
             id == Len(reindex.table) + 1
             cv_id == FreshUuid(reindex.drawn + 1)
             done == IngestCvFailingAt(collection, parsed_data, Some(id), cv_id, k)
         IN /\ collection' = done.collection
            /\ reindex' =
                 [reindex EXCEPT
                    !.table = Append(@, NewCandidate(parsed_data, id) @@ [source |-> source]),
                    !.drawn = @ + 1,
                    !.calls = Append(@, CallEntry(source, 0, cv_id, Some(id),
                                                  parsed_data["years_experience"], k, done))]
  /\ UNCHANGED <<original_query, call, seg, ranker, ranking, api, tokens, singletons>>

\* AIService.ingest_many_cvs on a list of parsed records, once in a run.
IngestBatch ==
  /\ ~reindex.batch.called
  /\ \E cv_list \in {l \in BatchLists : Len(reindex.calls) + Len(l) <= MaxCalls} :
       \E faults \in {f \in [1..Len(cv_list) -> 0..2] :
                        Cardinality({i \in DOMAIN f : f[i] > 0}) <= MaxFaults - FaultsSoFar} :
         LET done == IngestManyCvs([collection |-> collection, success_count |-> 0,
                                    calls |-> reindex.calls],
                                   cv_list, faults, reindex.drawn, 1)
         IN /\ collection' = done.collection
            /\ reindex' =
                 [reindex EXCEPT
                    !.drawn = @ + Len(cv_list),
                    !.calls = done.calls,
                    !.batch = [called |-> TRUE, cv_list |-> cv_list,
                               success_count |-> done.success_count]]
  /\ UNCHANGED <<original_query, call, seg, ranker, ranking, api, tokens, singletons>>

\* POST /api/admin/reindex, start_reindex lines 115-127: 409 while the flag
\* is set, otherwise the task is handed to BackgroundTasks.
StartReindex ==
  /\ Len(reindex.tasks) + reindex.rejected < MaxRequests
  /\ reindex' =
       IF reindex.running
       THEN [reindex EXCEPT !.rejected = @ + 1]
       ELSE [reindex EXCEPT
               !.tasks = Append(@, [pc |-> "scheduled", candidates |-> <<>>, i |-> 0])]
  /\ UNCHANGED <<collection, original_query, call, seg, ranker, ranking, api, tokens, singletons>>

\* _do_reindex, lines 36-55: the task starts in a worker thread, sets the
\* flag, reads the table and resets the counters; with no candidates it
\* clears the flag and returns.
TaskBegin(t) ==
  /\ t \in 1..Len(reindex.tasks)
  /\ reindex.tasks[t].pc = "scheduled"
  /\ reindex' =
       [reindex EXCEPT
          !.running = Len(reindex.table) > 0,
          !.total = Len(reindex.table),
          !.progress = 0, !.success = 0, !.failed = 0,
          !.tasks[t] = [pc |-> IF Len(reindex.table) = 0 THEN "done" ELSE "loop",
                        candidates |-> reindex.table, i |-> 1]]
  /\ UNCHANGED <<collection, original_query, call, seg, ranker, ranking, api, tokens, singletons>>

\* _do_reindex, lines 57-86: one turn of the loop, the record built from
\* the row and ingested under the key of the row.
TaskIndex(t) ==
  /\ t \in 1..Len(reindex.tasks)
  /\ reindex.tasks[t].pc = "loop"
  /\ reindex.tasks[t].i <= Len(reindex.tasks[t].candidates)
  /\ Len(reindex.calls) < MaxCalls
  /\ \E k \in FaultChoices(CvData(reindex.tasks[t].candidates[reindex.tasks[t].i])) :
       LET candidate == reindex.tasks[t].candidates[reindex.tasks[t].i]
           cv_id == FreshUuid(reindex.drawn + 1)
           done == IngestCvFailingAt(collection, CvData(candidate), Some(candidate.id), cv_id, k)
       IN /\ collection' = done.collection
          /\ reindex' =
               [reindex EXCEPT
                  !.progress = reindex.tasks[t].i,
                  !.success = @ + (IF done.ok THEN 1 ELSE 0),
                  !.failed = @ + (IF done.ok THEN 0 ELSE 1),
                  !.drawn = @ + 1,
                  !.calls = Append(@, CallEntry("reindex", t, cv_id, Some(candidate.id),
                                                candidate.years_experience, k, done)),
                  !.tasks[t].i = @ + 1]
  /\ UNCHANGED <<original_query, call, seg, ranker, ranking, api, tokens, singletons>>

\* _do_reindex, lines 88-89: the loop is over and the flag is cleared.
TaskFinish(t) ==
  /\ t \in 1..Len(reindex.tasks)
  /\ reindex.tasks[t].pc = "loop"
  /\ reindex.tasks[t].i > Len(reindex.tasks[t].candidates)
  /\ reindex' = [reindex EXCEPT !.running = FALSE, !.tasks[t].pc = "done"]
  /\ UNCHANGED <<collection, original_query, call, seg, ranker, ranking, api, tokens, singletons>>

\* The index starts empty and the table without rows.
InitReindex ==
  /\ collection = EmptyCollection
  /\ original_query = <<>>
  /\ call = [t \in Callers |-> IdleCall]
  /\ seg = IdleSeg
  /\ ranker = IdleRanker
  /\ ranking = IdleRanking
  /\ api = IdleApi
  /\ tokens = IdleTokens
  /\ singletons = IdleSingletons
  /\ reindex = IdleReindex

NextReindex ==
  \/ ImportCv("upload")
  \/ ImportCv("gmail")
  \/ IngestBatch
  \/ StartReindex
  \/ \E t \in 1..MaxRequests : TaskBegin(t) \/ TaskIndex(t) \/ TaskFinish(t)
SpecReindex == InitReindex /\ [][NextReindex]_vars

\* ------------------------------------------------------------------------
\* Lazy loading: get_ai_service, get_retriever, get_ranker,
\* get_ingestion_pipeline and _get_model, statement by statement
\* ------------------------------------------------------------------------

\* `if _x is None:` -- thread t enters the getter of component c and tests
\* the global; no lock is taken.
EnterGetter(t, c) ==
  /\ singletons.thread[t].pc = "idle"
  /\ singletons.thread[t].uses < MaxUses
  /\ c \in GettersOf(t)
  /\ singletons' =
       [singletons EXCEPT
          !.thread[t].pc = IF singletons.globals[c] = None THEN "build" ELSE "return",
          !.thread[t].component = c,
          !.thread[t].uses = @ + 1]
  /\ UNCHANGED <<collection, original_query, call, seg, ranker, ranking, api, tokens, reindex>>

\* `_x = X()` -- the thread that saw None builds an instance and stores it
\* in the global, over whatever another thread stored meanwhile.
BuildInstance(t) ==
  /\ singletons.thread[t].pc = "build"
  /\ LET c == singletons.thread[t].component
     IN singletons' =
          [singletons EXCEPT
             !.built[c] = @ + 1,
             !.globals[c] = Some(singletons.built[c] + 1),
             !.thread[t].pc = "return"]
  /\ UNCHANGED <<collection, original_query, call, seg, ranker, ranking, api, tokens, reindex>>

\* `return _x` -- the caller gets what the global holds now.
ReturnInstance(t) ==
  /\ singletons.thread[t].pc = "return"
  /\ LET c == singletons.thread[t].component
     IN singletons' =
          [singletons EXCEPT
             !.thread[t].pc = "idle",
             !.thread[t].component = "none",
             !.thread[t].obtained[c] = singletons.globals[c]]
  /\ UNCHANGED <<collection, original_query, call, seg, ranker, ranking, api, tokens, reindex>>

\* _do_reindex, line 55: the task builds an AIService of its own and does
\* not go through get_ai_service.
BuildOwnService ==
  /\ singletons.thread["worker"].pc = "idle"
  /\ singletons.thread["worker"].uses < MaxUses
  /\ singletons' =
       [singletons EXCEPT
          !.built["ai_service"] = @ + 1,
          !.thread["worker"].uses = @ + 1,
          !.thread["worker"].obtained["ai_service"] = Some(singletons.built["ai_service"] + 1)]
  /\ UNCHANGED <<collection, original_query, call, seg, ranker, ranking, api, tokens, reindex>>

NextLazy ==
  \/ \E t \in Threads, c \in Components : EnterGetter(t, c)
  \/ \E t \in Threads : BuildInstance(t) \/ ReturnInstance(t)
  \/ BuildOwnService
SpecLazy == Init /\ [][NextLazy]_vars

\* ------------------------------------------------------------------------
\* Properties
\* ------------------------------------------------------------------------

\* The frames in which the fused ranking of a search is at hand.
Fused(t) == call[t].pc = "group" /\ Len(call[t].ranked) > 0

\* Every ranked id carries weight_vector * vector_score + weight_lexical *
\* lexical_score, weights in 1/WeightScale.
FusedWith(frame, weight_vector, weight_lexical) ==
  /\ Len(frame.ranked) = Len(frame.doc_ids)
  /\ \A i \in 1..Len(frame.ranked) :
       frame.ranked[i].score =
         weight_vector * ScoreOf(frame.vector_scores, frame.ranked[i].id)
         + weight_lexical * ScoreOf(frame.bm25_scores, frame.ranked[i].id)

\* C1: whatever the interleaving of two calls, the query a call's lexical
\* scoring reads and the query its classification reads are the call's own
\* query.
OwnQueryScored ==
  \A t \in Callers :
    /\ call[t].lex_query # None => The(call[t].lex_query) = call[t].clean_query
    /\ call[t].cls_query # None => The(call[t].cls_query) = call[t].clean_query

\* C2: segmenting the same record twice gives the same segments: the same
\* texts and the same ids, position by position.
ResegmentIdentical ==
  seg.stage = "twice" =>
    /\ seg.first.raised = seg.second.raised
    /\ Len(seg.first.chunks) = Len(seg.second.chunks)
    /\ \A i \in 1..Len(seg.first.chunks) :
         /\ seg.first.chunks[i].text = seg.second.chunks[i].text
         /\ seg.first.chunks[i].id = seg.second.chunks[i].id

\* A record that carries something to segment.
NonEmptyList(cv_json, key) ==
  LET v == Get(cv_json, key, Some(<<>>)) IN v # None /\ Len(The(v)) > 0
HasContent(cv_json) ==
  \/ Truthy(Get(cv_json, "title", None))
  \/ Truthy(Get(cv_json, "summary", None))
  \/ Truthy(Get(cv_json, "skills", None))
  \/ Truthy(Get(cv_json, "certifications", None))
  \/ NonEmptyList(cv_json, "languages")
  \/ NonEmptyList(cv_json, "experience")
  \/ NonEmptyList(cv_json, "education")
  \/ NonEmptyList(cv_json, "projects_or_work")

\* C3: chunk returns at least one segment for every non-empty record, and
\* the ids of the segments it returns are pairwise distinct.
NonEmptyRecordSegmented ==
  (seg.stage \in {"once", "twice"} /\ HasContent(seg.cv_json)) =>
    /\ ~seg.first.raised
    /\ Len(seg.first.chunks) >= 1
    /\ \A i, j \in 1..Len(seg.first.chunks) :
         seg.first.chunks[i].id = seg.first.chunks[j].id => i = j

ScoresInUnitRange ==
  \A t \in Callers :
    /\ \A id \in DOMAIN call[t].bm25_scores : call[t].bm25_scores[id] \in 0..ScoreScale
    /\ \A id \in DOMAIN call[t].vector_scores : call[t].vector_scores[id] \in 0..ScoreScale
    /\ \A i \in 1..Len(call[t].ranked) : call[t].ranked[i].score \in 0..FusedScale
    /\ \A i \in 1..Len(call[t].candidates) :
         call[t].candidates[i].retrieval_score \in 0..AggScale

\* A ranking in which a lexical score is 1.0 and a fused score is positive,
\* while the other caller holds a candidate with a positive score.
ScoresInUnitRangeWitness ==
  \E t, u \in Callers :
    /\ Fused(t)
    /\ \E id \in DOMAIN call[t].bm25_scores : call[t].bm25_scores[id] = ScoreScale
    /\ \E id \in DOMAIN call[t].vector_scores : call[t].vector_scores[id] \in 1..(ScoreScale - 1)
    /\ \E i \in 1..Len(call[u].candidates) : call[u].candidates[i].retrieval_score > 0

\* The frames in which a batch has been scored by bm25_score.
Scored(t) == call[t].pc \in {"fuse", "group"} /\ DOMAIN call[t].raw_scores # {}

\* The highest raw score of a scored batch.
TopRaw(t) ==
  CHOOSE m \in {call[t].raw_scores[id] : id \in DOMAIN call[t].raw_scores} :
    \A id \in DOMAIN call[t].raw_scores : call[t].raw_scores[id] <= m

\* C7 as stated: in every batch the id with the highest raw score gets 1.0
\* and every id with raw score 0 gets 0.
HighestRawGetsOne ==
  \A t \in Callers :
    Scored(t) =>
      \A id \in DOMAIN call[t].raw_scores :
        /\ call[t].raw_scores[id] = TopRaw(t) => call[t].bm25_scores[id] = ScoreScale
        /\ call[t].raw_scores[id] = 0 => call[t].bm25_scores[id] = 0

\* C7: in every batch in which some raw score is positive the id with the
\* highest raw score gets 1.0; every id with raw score 0 gets 0.
HighestPositiveRawGetsOne ==
  \A t \in Callers :
    Scored(t) =>
      \A id \in DOMAIN call[t].raw_scores :
        /\ (TopRaw(t) > 0 /\ call[t].raw_scores[id] = TopRaw(t)) =>
             call[t].bm25_scores[id] = ScoreScale
        /\ call[t].raw_scores[id] = 0 => call[t].bm25_scores[id] = 0

\* A batch with two different positive raw scores and a raw score of 0.
HighestPositiveRawGetsOneWitness ==
  \E t \in Callers :
    /\ Scored(t)
    /\ \E a, b, c \in DOMAIN call[t].raw_scores :
         /\ call[t].raw_scores[a] = TopRaw(t)
         /\ 0 < call[t].raw_scores[b] /\ call[t].raw_scores[b] < TopRaw(t)
         /\ call[t].raw_scores[c] = 0

\* C8: the search whose hits form the result fetches max(3 * top_k, 60)
\* when a languages or location filter is present, max(top_k, 20) otherwise.
PoolSizeByPostFiltering ==
  \A t \in Callers :
    (call[t].pc = "done" /\ Len(call[t].searches) > 0) =>
      LET last == call[t].searches[Len(call[t].searches)]
          post == \/ Truthy(Get(call[t].ui_filters, "languages", None))
                  \/ Truthy(Get(call[t].ui_filters, "location", None))
      IN last.k = IF post THEN Max2(3 * call[t].top_k, 60) ELSE Max2(call[t].top_k, 20)

ViaFallback(t) ==
  /\ call[t].pc = "done"
  /\ call[t].filters # None
  /\ Len(call[t].searches) = 2
  /\ call[t].searches[1].hits = 0

\* A call that ended and was made with no filter at all.
Unfiltered(u) == call[u].pc = "done" /\ DOMAIN call[u].ui_filters = {}

\* C10: a call that ends through the fallback returns the candidates that
\* the call with the same query and top_k and no filter returns: the same
\* ids with the same scores in the same order.
FallbackEqualsUnfiltered ==
  \A t, u \in Callers :
    ( /\ ViaFallback(t) /\ Unfiltered(u)
      /\ call[t].user_query = call[u].user_query
      /\ call[t].top_k = call[u].top_k ) =>
        call[t].candidates = call[u].candidates

\* Both calls have ended, on the same query and top_k, with two candidates.
FallbackEqualsUnfilteredWitness ==
  \E t, u \in Callers :
    /\ ViaFallback(t) /\ Unfiltered(u)
    /\ call[t].user_query = call[u].user_query
    /\ call[t].top_k = call[u].top_k
    /\ Len(call[u].candidates) >= 2

\* The part of a segment id before its first "_".
DocumentOf(segment_id) ==
  LET cut == {i \in 1..Len(segment_id) : segment_id[i] = "_"}
  IN IF cut = {} THEN segment_id
     ELSE SubSeq(segment_id, 1, (CHOOSE i \in cut : \A j \in cut : i <= j) - 1)

\* The positions in a call's fused ranking of the segments of a document.
SegmentsOf(t, document_id) ==
  {i \in 1..Len(call[t].ranked) : DocumentOf(call[t].ranked[i].id) = document_id}

\* The highest, and the sum, of the fused scores at a set of positions.
BestAt(t, positions) ==
  CHOOSE m \in {call[t].ranked[i].score : i \in positions} :
    \A i \in positions : call[t].ranked[i].score <= m
RECURSIVE TotalAt(_, _)
TotalAt(t, positions) ==
  IF positions = {} THEN 0
  ELSE LET i == CHOOSE x \in positions : TRUE
       IN call[t].ranked[i].score + TotalAt(t, positions \ {i})

EveryCandidateHasChunkScore ==
  \A t \in Callers :
    call[t].pc = "done" =>
      /\ Len(call[t].candidates) <=
           Cardinality({DocumentOf(call[t].ranked[i].id) : i \in 1..Len(call[t].ranked)})
      /\ \A c \in 1..Len(call[t].candidates) :
           /\ \E i \in 1..Len(call[t].ranked) :
                DocumentOf(call[t].ranked[i].id) = call[t].candidates[c].id
           /\ \A d \in 1..Len(call[t].candidates) :
                call[t].candidates[d].id = call[t].candidates[c].id => d = c

\* A call returned a single document out of a ranking of several segments
\* (the filter kept the other document's segments out of the ranking).
EveryCandidateHasChunkScoreWitness ==
  \E t \in Callers :
    /\ call[t].pc = "done"
    /\ Len(call[t].candidates) = 1
    /\ Len(call[t].ranked) >= 2
    /\ collection = InitialCollection

\* The documents of a fused ranking in the order of their first segment.
RECURSIVE FirstAppearances(_)
FirstAppearances(ranked) ==
  IF Len(ranked) = 0 THEN <<>>
  ELSE LET front == FirstAppearances(SubSeq(ranked, 1, Len(ranked) - 1))
           document_id == DocumentOf(ranked[Len(ranked)].id)
       IN IF \E i \in 1..Len(front) : front[i] = document_id THEN front
          ELSE Append(front, document_id)

\* The text stored in the index under a segment id.
StoredText(segment_id) ==
  collection[CHOOSE s \in 1..Len(collection) : collection[s].id = segment_id].document

\* The texts of the (at most) three highest segments of a document in a
\* fused ranking, joined by spaces.
RECURSIVE SpaceJoined(_)
SpaceJoined(texts) ==
  IF Len(texts) = 0 THEN <<>>
  ELSE IF Len(texts) = 1 THEN texts[1]
  ELSE texts[1] \o <<" ">> \o SpaceJoined(Tail(texts))
TopThreeText(ranked, document_id) ==
  LET mine == SelectIdx(Len(ranked), {i \in 1..Len(ranked) : DocumentOf(ranked[i].id) = document_id})
      top == SubSeq(mine, 1, IF Len(mine) < 3 THEN Len(mine) ELSE 3)
  IN SpaceJoined([j \in 1..Len(top) |-> StoredText(ranked[top[j]].id)])

\* retrieve has returned to AIService.search without raising.
Retrieved == api.stage \in {"retrieved", "served"} /\ ~api.retrieved.raised

\* The representative text of every candidate retrieve returned is made of
\* its three highest segments.
RepresentativeTexts ==
  \A c \in 1..Len(api.retrieved.candidates) :
    api.retrieved.candidates[c].text =
      TopThreeText(api.retrieved.ranked, api.retrieved.candidates[c].id)

\* C12 as stated: the list retrieve returns is in non-increasing order of
\* aggregated score, each text made of the three highest segments.
RetrieveReturnsSorted ==
  Retrieved =>
    /\ \A c \in 1..Len(api.retrieved.candidates) - 1 :
         api.retrieved.candidates[c].retrieval_score
           >= api.retrieved.candidates[c + 1].retrieval_score
    /\ RepresentativeTexts

\* C12: retrieve returns the documents in the order in which their first
\* segment appears in the fused ranking, each with the texts of its (at
\* most) three highest segments; the sort by descending aggregated score is
\* made by AIService.search when the list is not re-ranked.
RetrieveInRankingOrder ==
  Retrieved =>
    /\ [c \in 1..Len(api.retrieved.candidates) |-> api.retrieved.candidates[c].id]
         = FirstAppearances(api.retrieved.ranked)
    /\ RepresentativeTexts
    /\ (api.stage = "served" /\ ~api.search.reranked) =>
         \A c \in 1..Len(api.search.returned) - 1 :
           api.search.returned[c].retrieval_score >= api.search.returned[c + 1].retrieval_score

\* retrieve returned a document with more than three segments ahead of a
\* document with a higher score, and AIService.search returned them the
\* other way round.
RetrieveInRankingOrderWitness ==
  /\ api.stage = "served"
  /\ ~api.retrieved.raised
  /\ ~api.search.reranked
  /\ Len(api.retrieved.candidates) >= 2
  /\ api.retrieved.candidates[1].retrieval_score < api.retrieved.candidates[2].retrieval_score
  /\ Cardinality({i \in 1..Len(api.retrieved.ranked) :
                    DocumentOf(api.retrieved.ranked[i].id) = api.retrieved.candidates[1].id}) > 3
  /\ Len(api.search.returned) >= 2
  /\ api.search.returned[1].id = api.retrieved.candidates[2].id

\* The position in a list of candidates of the one with a given id.
PlaceOf(candidates, id) ==
  CHOOSE j \in 1..Len(candidates) : candidates[j].id = id

\* The score a candidate has after the degraded path: its own score if it
\* carries one, else its retrieval score (0 if it has none).
DegradedScore(candidate) ==
  IF "score" \in DOMAIN candidate THEN candidate.score
  ELSE IF "retrieval_score" \in DOMAIN candidate THEN candidate.retrieval_score ELSE 0

\* returned holds exactly the candidates of given, each with the score
\* wanted(candidate) and otherwise unchanged, by descending score, and
\* candidates of equal score in the order they have in given.
StablyRanked(given, returned, wanted(_)) ==
  /\ Len(returned) = Len(given)
  /\ \A i \in 1..Len(given) :
       \E j \in 1..Len(returned) :
         /\ returned[j].id = given[i].id
         /\ returned[j] = SetItem(given[i], "score", wanted(given[i]))
  /\ \A j \in 1..Len(returned) - 1 : returned[j].score >= returned[j + 1].score
  /\ \A i, k \in 1..Len(given) :
       (i < k /\ wanted(given[i]) = wanted(given[k]))
         => PlaceOf(returned, given[i].id) < PlaceOf(returned, given[k].id)

\* The rank call found the re-ranker unavailable, or its request raised.
RankDegraded ==
  /\ ranking.called
  /\ Len(ranking.given) > 0
  /\ ~ranking.available \/ ranking.outcome.raises

Probed == ranker.use.made /\ ranker.use.probed

\* C15: availability is probed lazily, and again on every use while the
\* re-ranker is unavailable: nothing is probed before the first use; a use
\* that finds no client yet reads the key, and finds the re-ranker
\* available exactly if the key is set and the client can be built,
\* whatever earlier uses found; a use after the re-ranker became available
\* probes nothing and finds it available.
ProbedWhileUnavailable ==
  /\ ~ranker.use.made =>
       /\ ranker.globals = [_client |-> None, _available |-> None]
       /\ ranker.self_client = None
  /\ ranker.use.made =>
       /\ ranker.use.probed = ~ranker.use.before
       /\ ranker.use.retried => ranker.use.probed
       /\ ranker.use.available =
            (ranker.use.before \/ (ranker.use.api_key /\ ranker.use.constructible))
       /\ ranker.use.available = (ranker.self_client # None)
       /\ ranker.use.available => ranker.globals._available = Some(TRUE)

\* A use that began with the re-ranker found unavailable earlier read the
\* key, now set, and found the re-ranker available.
ProbedWhileUnavailableWitness ==
  /\ Probed
  /\ ranker.use.retried
  /\ ranker.use.api_key
  /\ ranker.use.available

\* The rank call found the re-ranker available and its request was
\* answered with results whose indices are positions of the list sent.
RankSucceeded ==
  /\ ranking.called
  /\ ranking.available
  /\ ~ranking.outcome.raises
  /\ \A r \in 1..Len(ranking.outcome.results) :
       ranking.outcome.results[r].index \in 0..(Len(ranking.given) - 1)

\* The results of the response that name the i-th candidate sent.
ResultsFor(i) ==
  {r \in 1..Len(ranking.outcome.results) : ranking.outcome.results[r].index = i - 1}

\* C16: when the re-ranker is available and the call succeeds, one request
\* is made with the texts of all candidates in list order and top_n equal
\* to their number; each relevance score returned replaces the score of
\* the candidate at the returned index, and the list comes back by
\* descending score.
RerankedByIndex ==
  RankSucceeded =>
    /\ ~ranking.raised
    /\ ranking.requests =
         << [ model |-> <<"r","e","r","a","n","k","-","v","3",".","5">>,
              query |-> ranking.query,
              documents |-> [i \in 1..Len(ranking.given) |-> ranking.given[i].text],
              top_n |-> Len(ranking.given) ] >>
    /\ Len(ranking.returned) = Len(ranking.given)
    /\ \A i \in 1..Len(ranking.given) :
         \E j \in 1..Len(ranking.returned) :
           /\ ranking.returned[j].id = ranking.given[i].id
           /\ IF ResultsFor(i) = {} THEN ranking.returned[j] = ranking.given[i]
              ELSE \E r \in ResultsFor(i) :
                     ranking.returned[j] =
                       SetItem(ranking.given[i], "score", ranking.outcome.results[r].relevance_score)
    /\ \A j \in 1..Len(ranking.returned) - 1 :
         Get(ranking.returned[j], "score", 0) >= Get(ranking.returned[j + 1], "score", 0)

\* A request for three or more candidates was answered in full, the most
\* relevant being the last sent; a candidate that had a score of its own
\* has the relevance score instead.
RerankedByIndexWitness ==
  /\ RankSucceeded
  /\ Len(ranking.given) >= 3
  /\ Len(ranking.outcome.results) = Len(ranking.given)
  /\ ranking.outcome.results[1].index = Len(ranking.given) - 1
  /\ ranking.returned[1].id = ranking.given[Len(ranking.given)].id
  /\ \E i \in 1..Len(ranking.given) :
       /\ "score" \in DOMAIN ranking.given[i]
       /\ ranking.returned[PlaceOf(ranking.returned, ranking.given[i].id)].score
            # ranking.given[i].score

\* The metadata keys whose value chunk takes from the record with .get.
OptionalKeys == {"name", "location", "experience_years", "title", "languages"}

\* The segments the chunker has returned to ingest_cv.
SegmentsReturned ==
  SeqToSet(seg.first.chunks)

\* C17 as stated: no segment returned by chunk has a null metadata value.
NoNullLeavesSegmenter ==
  \A chunk \in SegmentsReturned :
    \A k \in OptionalKeys : chunk.metadata[k] # None

\* C17: no segment added to the vector index has a null metadata value:
\* the segments ingest_cv stores are the segments chunk returned, with
\* every null metadata value replaced by the empty string and every other
\* value as it was.
NoNullReachesIndex ==
  /\ \A i \in 1..Len(collection) :
       \A k \in DOMAIN collection[i].metadata : collection[i].metadata[k] # PyNone
  /\ (seg.stage = "ingested" /\ ~seg.first.raised) =>
       /\ Len(collection) >= Len(seg.first.chunks)
       /\ \A c \in 1..Len(seg.first.chunks) :
            LET chunk == seg.first.chunks[c]
                stored == collection[Len(collection) - Len(seg.first.chunks) + c]
            IN /\ stored.id = chunk.id
               /\ stored.document = chunk.text
               /\ \A k \in OptionalKeys :
                    IF chunk.metadata[k] = None THEN stored.metadata[k] = PyStr(<<>>)
                    ELSE /\ stored.metadata[k].type \in {"str", "int"}
                         /\ stored.metadata[k].value = The(chunk.metadata[k])

\* A record was ingested whose segments left the chunker with a null
\* location and a null title, and they are in the index.
NoNullReachesIndexWitness ==
  /\ seg.stage = "ingested"
  /\ ~seg.first.raised
  /\ Len(seg.first.chunks) >= 2
  /\ \A c \in 1..Len(seg.first.chunks) :
       /\ seg.first.chunks[c].metadata.location = None
       /\ seg.first.chunks[c].metadata.title = None
  /\ collection[Len(collection)].id = seg.first.chunks[Len(seg.first.chunks)].id
  /\ "candidate_id" \in DOMAIN collection[Len(collection)].metadata

\* The score by which AIService.search ordered a candidate it returned:
\* the re-ranker's score if the list was re-ranked, else the retrieval
\* score.
FinalScore(candidate) ==
  IF api.search.reranked THEN Get(candidate, "score", 0) ELSE candidate.retrieval_score

\* The place of a document in the order of first appearance in the fused
\* ranking.
FirstPlace(document_id) ==
  CHOOSE p \in 1..Len(FirstAppearances(api.retrieved.ranked)) :
    FirstAppearances(api.retrieved.ranked)[p] = document_id

\* C13: in the list AIService.search returns, scores do not increase, and
\* two documents of equal final score are in the order in which their
\* first segments appear in the fused ranking.
TiesInRankingOrder ==
  (api.stage = "served" /\ ~api.search.failed) =>
    \A j, k \in 1..Len(api.search.returned) :
      j < k =>
        /\ FinalScore(api.search.returned[j]) >= FinalScore(api.search.returned[k])
        /\ FinalScore(api.search.returned[j]) = FinalScore(api.search.returned[k])
             => FirstPlace(api.search.returned[j].id) < FirstPlace(api.search.returned[k].id)

\* AIService.search returned, without re-ranking, two documents whose
\* aggregated scores are equal.
TiesInRankingOrderWitness ==
  /\ api.stage = "served"
  /\ ~api.search.failed
  /\ ~api.search.reranked
  /\ Len(api.search.returned) >= 2
  /\ api.search.returned[1].retrieval_score = api.search.returned[2].retrieval_score
  /\ api.search.returned[1].id # api.search.returned[2].id

\* C18: a failure of the embedding port or of the vector index port during
\* a query does not leave retrieve as an exception.
FaultNeverLeavesRetrieve ==
  (api.stage \in {"retrieved", "served"} /\ api.fault # NoFault) => ~api.retrieved.raised

\* C19: at the search route a retrieval that succeeds with no match is
\* answered with an empty list, and the text-search fallback is taken only
\* when the retrieval failed.
FallbackOnlyOnFailure ==
  api.stage = "served" =>
    /\ (~api.search.failed /\ Len(api.retrieved.candidates) = 0) =>
         (api.response.path = "rag" /\ api.response.candidates = <<>>)
    /\ api.response.path = "fallback" => api.search.failed

\* ------------------------------------------------------------------------
\* Claims C21..C30
\* ------------------------------------------------------------------------

\* C23: chunk never raises, whether an optional field of the record is
\* absent or null, and a record with nothing to extract yields the empty
\* segment list.
ChunkNeverRaises ==
  seg.stage \in {"once", "twice"} =>
    /\ ~seg.first.raised
    /\ ~HasContent(seg.cv_json) => seg.first.chunks = <<>>

\* C24: the words a query is classified on are exactly the keywords it is
\* scored on.
ClassifiedOnScoredTokens ==
  tokens.stage = "classified" => tokens.words = tokens.keywords

\* The score the search route reads from a candidate (search.py line 146).
ScoreRead(c) == Get(c, "score", Get(c, "retrieval_score", 0))

\* The place a returned candidate had in the list given to rank.
GivenAt(c) == CHOOSE i \in 1..Len(ranking.given) : ranking.given[i].id = c.id

\* The candidate's score is a relevance score the re-ranker returned for it.
ScoredByReranker(c) ==
  /\ "score" \in DOMAIN c
  /\ \E r \in ResultsFor(GivenAt(c)) : c.score = ranking.outcome.results[r].relevance_score

\* The candidate's score is its retrieval score.
ScoredByRetrieval(c) == ScoreRead(c) = Get(c, "retrieval_score", 0)

\* The list given to rank is as retrieve builds it: every candidate with a
\* retrieval score and none with a score.
GivenAsRetrieved ==
  /\ ranking.called
  /\ Len(ranking.given) > 0
  /\ \A i \in 1..Len(ranking.given) :
       "retrieval_score" \in DOMAIN ranking.given[i] /\ "score" \notin DOMAIN ranking.given[i]

\* C27: after rank returns, either every candidate's score is a relevance
\* score of the re-ranker or every candidate's score is its retrieval
\* score.
OneScoreSource ==
  GivenAsRetrieved =>
    \/ \A j \in 1..Len(ranking.returned) : ScoredByReranker(ranking.returned[j])
    \/ \A j \in 1..Len(ranking.returned) : ScoredByRetrieval(ranking.returned[j])

\* A string holds another, letter case aside.
Holds(text, part) == Contains(Lower(text), Lower(part))

\* A row of the candidates table satisfies the filters of a request as the
\* route defines them: years of experience within the range (a row without
\* years is in no range), the location holding the one asked for, and the
\* languages column holding one of the languages asked for; a filter that
\* is null or empty asks for nothing.
Satisfies(row, filters) ==
  /\ filters["min_experience"] # None =>
       \E n \in row.years_experience : n >= The(filters["min_experience"])
  /\ filters["max_experience"] # None =>
       \E n \in row.years_experience : n <= The(filters["max_experience"])
  /\ (filters["location"] # None /\ The(filters["location"]) # <<>>) =>
       \E location \in row.location : Holds(location, The(filters["location"]))
  /\ (filters["languages"] # None /\ The(filters["languages"]) # <<>>) =>
       \E i \in 1..Len(The(filters["languages"])), languages \in row.languages :
         Holds(languages, The(filters["languages"])[i])

\* The rows of the table behind a candidate of the response.
RowsOf(candidate) == {r \in 1..Len(api.rows) : api.rows[r].id = candidate.id}

IngestedWith(cv_id) ==
  { collection[s].metadata.candidate_id.value :
      s \in {u \in 1..Len(collection) :
               /\ CvIdOf(collection[u].id) = cv_id
               /\ "candidate_id" \in DOMAIN collection[u].metadata} }

\* C26: the document of every result of AIService.search has a profile
\* segment in the index, and a result whose document was ingested with a
\* candidate_id carries that candidate_id.
EveryResultEnriched ==
  api.stage = "served" =>
    \A j \in 1..Len(api.search.returned) :
      /\ \E u \in 1..Len(collection) :
           collection[u].id = api.search.returned[j].id \o <<"_">> \o KindProfile
      /\ \A id \in IngestedWith(api.search.returned[j].id) :
           /\ "candidate_id" \in DOMAIN api.search.returned[j]
           /\ api.search.returned[j].candidate_id = id

\* The stored segments an ingest_cv call added: those under its cv_id.
SegmentsOfCall(c) ==
  {u \in 1..Len(collection) : collection[u].metadata.cv_id = PyStr(c.cv_id)}

\* The lower bounds of the experience filters asked for.
ExperienceBounds == {0, 3, 5}

\* C25: every segment stored for a record that came through the upload, the
\* Gmail or the reindex path with n years of experience carries n as its
\* experience_years, and an experience filter pushed down to the index
\* selects the segment exactly when n lies in the range.
ExperienceYearsStored ==
  \A i \in 1..Len(reindex.calls) :
    reindex.calls[i].by \in {"upload", "gmail", "reindex"} =>
      \A u \in SegmentsOfCall(reindex.calls[i]) :
        /\ collection[u].metadata.experience_years.type = "int"
        /\ collection[u].metadata.experience_years.value = The(reindex.calls[i].years)
        /\ \A min_exp \in ExperienceBounds :
             WhereHolds(collection[u].metadata,
                        BuildFilters(FilterDump(Some(min_exp), None, None, None)))
             <=> The(reindex.calls[i].years) >= min_exp

\* The pairs (candidate_id, segment kind) of the stored segments that carry
\* a candidate_id, one per segment.
KeyedSegments ==
  {u \in 1..Len(collection) : "candidate_id" \in DOMAIN collection[u].metadata}

\* C30: the index holds at most one segment per (candidate_id, segment
\* kind), whatever ingest_cv calls and reindex runs were made.
OneSegmentPerCandidateKind ==
  \A u \in KeyedSegments, v \in KeyedSegments :
    ( /\ collection[u].metadata.candidate_id = collection[v].metadata.candidate_id
      /\ collection[u].metadata.chunk_type = collection[v].metadata.chunk_type )
    => u = v

\* The reindex tasks accepted and not finished.
UnfinishedTasks == {t \in 1..Len(reindex.tasks) : reindex.tasks[t].pc # "done"}

\* C28: at most one reindex task is accepted and unfinished at any time: a
\* request made before the accepted one finished schedules no second task.
OneReindexAtATime == Cardinality(UnfinishedTasks) <= 1

\* The ingest_cv calls of the reindex task t, and of the ingest_many_cvs
\* call.
CallsOfTask(t) ==
  {i \in 1..Len(reindex.calls) : reindex.calls[i].by = "reindex" /\ reindex.calls[i].task = t}
CallsOfBatch == {i \in 1..Len(reindex.calls) : reindex.calls[i].by = "batch"}

\* C22: an ingest_cv call on whose k-th segment the embedder or the index
\* failed returned False and left exactly its first k-1 segments in the
\* index; a call nothing failed on returned True and left all its segments;
\* ingest_many_cvs went through its whole list and counted the calls that
\* returned True, and a reindex task that finished went through every
\* candidate it read.
PartialIngestionKept ==
  /\ \A i \in 1..Len(reindex.calls) :
       IF reindex.calls[i].fault > 0
       THEN /\ ~reindex.calls[i].ok
            /\ Cardinality(SegmentsOfCall(reindex.calls[i])) = reindex.calls[i].fault - 1
       ELSE /\ reindex.calls[i].ok
            /\ Cardinality(SegmentsOfCall(reindex.calls[i])) = reindex.calls[i].planned
  /\ reindex.batch.called =>
       /\ Cardinality(CallsOfBatch) = Len(reindex.batch.cv_list)
       /\ reindex.batch.success_count
            = Cardinality({i \in CallsOfBatch : reindex.calls[i].ok})
  /\ \A t \in 1..Len(reindex.tasks) :
       reindex.tasks[t].pc = "done" =>
         Cardinality(CallsOfTask(t)) = Len(reindex.tasks[t].candidates)

\* ingest_many_cvs was called on two records; the second segment of the
\* first failed, one segment of it is in the index, and the second record
\* was ingested whole after it.
PartialIngestionKeptWitness ==
  /\ reindex.batch.called
  /\ reindex.batch.success_count = 1
  /\ \E i \in CallsOfBatch, j \in CallsOfBatch :
       /\ i < j
       /\ reindex.calls[i].fault = 2
       /\ Cardinality(SegmentsOfCall(reindex.calls[i])) = 1
       /\ reindex.calls[j].ok
       /\ Cardinality(SegmentsOfCall(reindex.calls[j])) = 2

\* The instances of component c the threads obtained.
ObtainedOf(c) == UNION {singletons.thread[t].obtained[c] : t \in Threads}

\* C21: every lazily built component was built at most once, and the
\* threads that obtained it obtained the same instance.
AcquiredOnce ==
  \A c \in Components :
    /\ singletons.built[c] <= 1
    /\ Cardinality(ObtainedOf(c)) <= 1
====
